---- MODULE Spec2Model ----
(***************************************************************************)
(* Model of the cache store and audit logger of pm-tools                   *)
(* (src/pm_tools/cache.py) and of the operations that use them (search,    *)
(* fetch, cite, download_pdfs, filter_articles_audited).                   *)
(*                                                                         *)
(* Texts are sequences of Unicode code points, file contents are sequences *)
(* of bytes; str.encode("utf-8") and Path.read_text(encoding="utf-8") are  *)
(* modelled by what they do to these sequences.                            *)
(***************************************************************************)
EXTENDS Integers, Sequences, FiniteSets, TLC

(***************************************************************************)
(* Characters (code points) used by the sample payloads.                   *)
(***************************************************************************)
Ch ==
    [TAB |-> 9, LF |-> 10, CR |-> 13, SP |-> 32, QUOTE |-> 34, COMMA |-> 44,
     SLASH |-> 47, ZERO |-> 48, ONE |-> 49, TWO |-> 50, THREE |-> 51, NINE |-> 57,
     COLON |-> 58, LT |-> 60, GT |-> 62, LBRACK |-> 91, BACKSLASH |-> 92,
     RBRACK |-> 93, DOT |-> 46, UD |-> 68, UF |-> 70, UP |-> 80, A |-> 97,
     D |-> 100, F |-> 102, C |-> 99, M |-> 109, N |-> 110, P |-> 112,
     Q |-> 113, R |-> 114, T |-> 116, LBRACE |-> 123, RBRACE |-> 125,
     O |-> 111, NEL |-> 133, EACUTE |-> 233]

(* A file that does not exist; no byte is negative. *)
NoFile == <<-1>>

(* the concatenation of the sequences of ss *)
RECURSIVE Flatten(_)
Flatten(ss) ==
    IF ss = <<>> THEN <<>>
    ELSE IF Len(ss) = 1 THEN ss[1]
    ELSE LET half == Len(ss) \div 2 IN
         Flatten(SubSeq(ss, 1, half)) \o Flatten(SubSeq(ss, half + 1, Len(ss)))

IsPrefixOf(s, t) ==
    /\ Len(s) <= Len(t)
    /\ SubSeq(t, 1, Len(s)) = s

(* s occurs in t starting at index i *)
StartsAt(t, i, s) ==
    /\ i >= 1
    /\ i + Len(s) - 1 <= Len(t)
    /\ SubSeq(t, i, i + Len(s) - 1) = s

(***************************************************************************)
(* data.encode("utf-8")  (cache.py:89, cache.py:119): one byte below       *)
(* U+0080, two bytes below U+0800.                                         *)
(***************************************************************************)
EncodeChar(c) ==
    IF c < 128 THEN <<c>>
    ELSE <<192 + (c \div 64), 128 + (c % 64)>>

Encode(text) ==
    Flatten([i \in 1..Len(text) |-> EncodeChar(text[i])])

(***************************************************************************)
(* The decoding half of path.read_text(encoding="utf-8") (cache.py:55):    *)
(* strict UTF-8; DecodeError stands for the UnicodeDecodeError it raises.  *)
(***************************************************************************)
DecodeError == <<-2>>

IsLead2(b) == b >= 194 /\ b <= 223

IsContinuation(b) == b >= 128 /\ b <= 191

(* every byte is ASCII, or the first of two with a continuation byte next, *)
(* or a continuation byte with such a first byte before it                 *)
Utf8WellFormed(bytes) ==
    \A i \in 1..Len(bytes) :
        \/ bytes[i] < 128
        \/ /\ IsLead2(bytes[i])
           /\ i < Len(bytes)
           /\ IsContinuation(bytes[i + 1])
        \/ /\ IsContinuation(bytes[i])
           /\ i > 1
           /\ IsLead2(bytes[i - 1])

Utf8Decode(bytes) ==
    IF ~Utf8WellFormed(bytes) THEN DecodeError
    ELSE Flatten([i \in 1..Len(bytes) |->
            IF bytes[i] < 128 THEN <<bytes[i]>>
            ELSE IF IsLead2(bytes[i])
            THEN <<(bytes[i] - 192) * 64 + (bytes[i + 1] - 128)>>
            ELSE <<>>])

(***************************************************************************)
(* The text-mode half of read_text: it opens the file with newline=None,   *)
(* so "\r\n" and a lone "\r" are both read as "\n".                        *)
(***************************************************************************)
UniversalNewlines(text) ==
    Flatten([i \in 1..Len(text) |->
        IF text[i] = Ch.CR THEN <<Ch.LF>>
        ELSE IF text[i] = Ch.LF /\ i > 1 /\ text[i - 1] = Ch.CR THEN <<>>
        ELSE <<text[i]>>])

ReadText(bytes) ==
    LET t == Utf8Decode(bytes) IN
    IF t = DecodeError THEN DecodeError ELSE UniversalNewlines(t)

(***************************************************************************)
(* json.loads(data) (cache.py:62) as a validator: whitespace, numbers      *)
(* without sign or fraction, strings with backslash escapes and no raw     *)
(* control character, arrays, objects.  JsonValue gives the index after    *)
(* the value that starts at i, 0 when there is none.                       *)
(***************************************************************************)
IsJsonWs(c) == c \in {Ch.SP, Ch.LF, Ch.CR, Ch.TAB}

IsDigit(c) == c >= Ch.ZERO /\ c <= Ch.NINE

RECURSIVE SkipWs(_, _)
SkipWs(t, i) ==
    IF i <= Len(t) /\ IsJsonWs(t[i]) THEN SkipWs(t, i + 1) ELSE i

RECURSIVE SkipDigits(_, _)
SkipDigits(t, i) ==
    IF i <= Len(t) /\ IsDigit(t[i]) THEN SkipDigits(t, i + 1) ELSE i

(* the index after the string whose opening quote is before i *)
RECURSIVE JsonStringEnd(_, _)
JsonStringEnd(t, i) ==
    IF i > Len(t) THEN 0
    ELSE IF t[i] = Ch.QUOTE THEN i + 1
    ELSE IF t[i] < 32 THEN 0
    ELSE IF t[i] = Ch.BACKSLASH THEN
        IF i + 1 <= Len(t)
              /\ t[i + 1] \in {Ch.QUOTE, Ch.BACKSLASH, Ch.SLASH, Ch.N, Ch.R, Ch.T}
        THEN JsonStringEnd(t, i + 2)
        ELSE 0
    ELSE JsonStringEnd(t, i + 1)

RECURSIVE JsonValue(_, _)
RECURSIVE JsonElements(_, _)
RECURSIVE JsonMembers(_, _)
JsonValue(t, i) ==
    IF i > Len(t) THEN 0
    ELSE IF t[i] = Ch.ZERO THEN i + 1
    ELSE IF IsDigit(t[i]) THEN SkipDigits(t, i)
    ELSE IF t[i] = Ch.QUOTE THEN JsonStringEnd(t, i + 1)
    ELSE IF t[i] = Ch.LBRACK THEN
        LET j == SkipWs(t, i + 1) IN
        IF j <= Len(t) /\ t[j] = Ch.RBRACK THEN j + 1
        ELSE JsonElements(t, j)
    ELSE IF t[i] = Ch.LBRACE THEN
        LET j == SkipWs(t, i + 1) IN
        IF j <= Len(t) /\ t[j] = Ch.RBRACE THEN j + 1
        ELSE JsonMembers(t, j)
    ELSE 0

(* value ("," value)* "]" starting at i; the index after the "]" *)
JsonElements(t, i) ==
    LET k == JsonValue(t, i) IN
    IF k = 0 THEN 0
    ELSE LET m == SkipWs(t, k) IN
         IF m > Len(t) THEN 0
         ELSE IF t[m] = Ch.RBRACK THEN m + 1
         ELSE IF t[m] = Ch.COMMA THEN JsonElements(t, SkipWs(t, m + 1))
         ELSE 0

(* string ":" value ("," string ":" value)* "}" starting at i *)
JsonMembers(t, i) ==
    IF i > Len(t) \/ t[i] # Ch.QUOTE THEN 0
    ELSE LET k == JsonStringEnd(t, i + 1) IN
         IF k = 0 THEN 0
         ELSE LET c == SkipWs(t, k) IN
              IF c > Len(t) \/ t[c] # Ch.COLON THEN 0
              ELSE LET v == JsonValue(t, SkipWs(t, c + 1)) IN
                   IF v = 0 THEN 0
                   ELSE LET m == SkipWs(t, v) IN
                        IF m > Len(t) THEN 0
                        ELSE IF t[m] = Ch.RBRACE THEN m + 1
                        ELSE IF t[m] = Ch.COMMA
                        THEN JsonMembers(t, SkipWs(t, m + 1))
                        ELSE 0

JsonValid(t) ==
    LET k == JsonValue(t, SkipWs(t, 1)) IN
    /\ k # 0
    /\ SkipWs(t, k) = Len(t) + 1

(***************************************************************************)
(* json.dumps(value, ensure_ascii=False) for the values the operations     *)
(* store: strings, small integers, lists and objects, with the default     *)
(* separators ", " and ": ".                                               *)
(***************************************************************************)
JsonEscapeChar(c) ==
    IF c = Ch.QUOTE THEN <<Ch.BACKSLASH, Ch.QUOTE>>
    ELSE IF c = Ch.BACKSLASH THEN <<Ch.BACKSLASH, Ch.BACKSLASH>>
    ELSE IF c = Ch.LF THEN <<Ch.BACKSLASH, Ch.N>>
    ELSE IF c = Ch.CR THEN <<Ch.BACKSLASH, Ch.R>>
    ELSE IF c = Ch.TAB THEN <<Ch.BACKSLASH, Ch.T>>
    ELSE <<c>>

JsonStr(text) ==
    <<Ch.QUOTE>> \o Flatten([i \in 1..Len(text) |-> JsonEscapeChar(text[i])])
        \o <<Ch.QUOTE>>

RECURSIVE Digits(_)
Digits(n) ==
    IF n < 10 THEN <<Ch.ZERO + n>>
    ELSE Digits(n \div 10) \o <<Ch.ZERO + (n % 10)>>

JsonInt(n) == Digits(n)

(* items: the serialised elements *)
JsonList(items) ==
    <<Ch.LBRACK>>
        \o Flatten([i \in 1..Len(items) |->
                       IF i = 1 THEN items[i]
                       ELSE <<Ch.COMMA, Ch.SP>> \o items[i]])
        \o <<Ch.RBRACK>>

(* members: pairs <<key text, serialised value>> *)
JsonObject(members) ==
    <<Ch.LBRACE>>
        \o Flatten([i \in 1..Len(members) |->
                       (IF i = 1 THEN <<>> ELSE <<Ch.COMMA, Ch.SP>>)
                           \o JsonStr(members[i][1]) \o <<Ch.COLON, Ch.SP>>
                           \o members[i][2]])
        \o <<Ch.RBRACE>>

(***************************************************************************)
(* ET.fromstring(data) (cache.py:64), for documents whose only tag is <a>  *)
(* without attributes: <a/>, <a>content</a>, character data is any         *)
(* character but "<".  XmlContent gives the index of the end tag that      *)
(* closes the content starting at i, 0 when the content is malformed.      *)
(***************************************************************************)
TagOpen == <<Ch.LT, Ch.A, Ch.GT>>

TagEmpty == <<Ch.LT, Ch.A, Ch.SLASH, Ch.GT>>

TagClose == <<Ch.LT, Ch.SLASH, Ch.A, Ch.GT>>

RECURSIVE XmlContent(_, _)
XmlContent(t, i) ==
    IF i > Len(t) THEN 0
    ELSE IF StartsAt(t, i, TagClose) THEN i
    ELSE IF StartsAt(t, i, TagEmpty) THEN XmlContent(t, i + 4)
    ELSE IF StartsAt(t, i, TagOpen) THEN
        LET j == XmlContent(t, i + 3) IN
        IF j = 0 THEN 0 ELSE XmlContent(t, j + 4)
    ELSE IF t[i] = Ch.LT THEN 0
    ELSE XmlContent(t, i + 1)

XmlValid(t) ==
    LET s == SkipWs(t, 1) IN
    IF StartsAt(t, s, TagEmpty) THEN SkipWs(t, s + 4) = Len(t) + 1
    ELSE IF StartsAt(t, s, TagOpen) THEN
        LET j == XmlContent(t, s + 3) IN
        /\ j # 0
        /\ SkipWs(t, j + 4) = Len(t) + 1
    ELSE FALSE

(***************************************************************************)
(* Cache categories and their format contract (cache.py:31-33).            *)
(***************************************************************************)
_JSON_CATEGORIES == {"search", "cite", "download"}

_XML_CATEGORIES == {"fetch"}

(* a cache_read that validates nothing *)
ValidatesAnything(category, data) == TRUE

(* cache.py:60-66: the validation of cache_read; TRUE when it passes. *)
Validates(category, data) ==
    IF category \in _JSON_CATEGORIES THEN JsonValid(data)
    ELSE IF category \in _XML_CATEGORIES THEN XmlValid(data)
    ELSE TRUE

(***************************************************************************)
(* Bounds of the model.                                                    *)
(***************************************************************************)
(* calls made in one run, over all processes *)
MaxCalls == 2

MaxClock == 3

(* the longest prefix a short write stores, unless it stores everything *)
MaxShort == 1

(* two processes, e.g. two CLI invocations started at the same time *)
Procs == {1, 2}

(***************************************************************************)
(* The state root handle a call is given: the .pm directory, or None.      *)
(***************************************************************************)
Root == "root"

NoRoot == "None"

(* init.py:12 *)
CACHE_SUBDIRS == {"search", "fetch", "cite", "download"}

(* A cache_read miss (None); no character is negative. *)
Miss == <<-3>>

(***************************************************************************)
(* Files under <root>/cache are a partial map from paths                   *)
(* <<category, name, suffix>> to byte sequences.                           *)
(***************************************************************************)
Path(category, key) == <<category, key[1], key[2]>>

(* tempfile.mkstemp(dir=path.parent, suffix=".tmp") (cache.py:87): a name  *)
(* no other file in the directory has.                                     *)
TmpKey(p) == <<<<Ch.T, Ch.M, Ch.P, Ch.ZERO + p>>, ".tmp">>

IsTmpPath(path) == path[3] = ".tmp"

FinalPaths(fs) == {path \in DOMAIN fs : ~IsTmpPath(path)}

Finals(fs) == [path \in FinalPaths(fs) |-> fs[path]]

WriteFile(fs, path, bytes) ==
    [q \in DOMAIN fs \cup {path} |-> IF q = path THEN bytes ELSE fs[q]]

(* os.unlink(tmp): removes the name if it is there. *)
Unlink(fs, path) ==
    [q \in DOMAIN fs \ {path} |-> fs[q]]

(* os.replace(tmp, path) (cache.py:91): the name `path` now holds the      *)
(* temporary file, the temporary name is gone, in one step.                *)
Replace(fs, tmp, path) ==
    [q \in (DOMAIN fs \ {tmp}) \cup {path} |-> IF q = path THEN fs[tmp] ELSE fs[q]]

(***************************************************************************)
(* cache_read (cache.py:36-68) on the files fs.  The result is the text,   *)
(* Miss for None, or DecodeError when read_text raises                     *)
(* UnicodeDecodeError, which `except OSError` does not catch.              *)
(***************************************************************************)
cache_read(fs, pm_dir, category, key) ==
    IF pm_dir = NoRoot THEN Miss
    ELSE IF Path(category, key) \notin DOMAIN fs THEN Miss
    ELSE LET data == ReadText(fs[Path(category, key)]) IN
         IF data = DecodeError THEN DecodeError
         ELSE IF ~Validates(category, data) THEN Miss
         ELSE data

(***************************************************************************)
(* Audit events and audit.jsonl.                                           *)
(*                                                                         *)
(* json.dumps(event) + "\n" (cache.py:118): the file holds the two halves  *)
(* of the serialised object and the newline as three tokens, so that a     *)
(* torn or overwritten line is a content the file can have.                *)
(***************************************************************************)
NoBody == [op |-> ""]

Line(event) ==
    <<[t |-> "{", ev |-> event], [t |-> "}", ev |-> event],
      [t |-> "nl", ev |-> NoBody]>>

LineLen == Len(Line(NoBody))

(* The audit file does not exist. *)
NoAudit == <<[t |-> "absent", ev |-> NoBody]>>

(* A write at the offset of the descriptor, which O_APPEND replaces. *)
WriteAtOffset(content, offset, data) ==
    [i \in 1..(IF offset + Len(data) > Len(content)
               THEN offset + Len(data) ELSE Len(content)) |->
        IF i > offset /\ i <= offset + Len(data) THEN data[i - offset]
        ELSE content[i]]

(* An open with O_TRUNC empties the file. *)
OpenTruncating(content) == <<>>

(* os.write on a descriptor opened with O_APPEND (cache.py:122-124): the   *)
(* bytes land after everything already in the file, whatever the offset    *)
(* of the descriptor.                                                      *)
AppendWrite(content, offset, data) ==
    content \o data

(* audit.py:18-25: the lines of the file that parse as JSON, in order. *)
RECURSIVE SplitLines(_, _)
SplitLines(content, acc) ==
    IF content = <<>> THEN (IF acc = <<>> THEN <<>> ELSE <<acc>>)
    ELSE IF Head(content).t = "nl" THEN <<acc>> \o SplitLines(Tail(content), <<>>)
    ELSE SplitLines(Tail(content), Append(acc, Head(content)))

LineParses(line) ==
    /\ Len(line) = 2
    /\ line[1].t = "{"
    /\ line[2].t = "}"
    /\ line[1].ev = line[2].ev

_read_events(content) ==
    IF content = NoAudit THEN <<>>
    ELSE LET lines == SplitLines(content, <<>>)
             good == SelectSeq(lines, LineParses)
         IN [i \in 1..Len(good) |-> good[i][1].ev]

(* json.dumps(event, ensure_ascii=False) (cache.py:118): every value       *)
(* becomes its literal text.                                               *)
JsonDumps(event) ==
    [k \in DOMAIN event |-> ToString(event[k])]

(***************************************************************************)
(* Sample payloads: valid and invalid texts of each format.                *)
(***************************************************************************)
JsonSamples ==
    { <<Ch.ONE, Ch.ONE>>,
      <<Ch.ONE, Ch.CR>>,
      <<Ch.QUOTE, Ch.EACUTE, Ch.QUOTE>> }

XmlSamples ==
    { TagEmpty,
      TagEmpty \o <<Ch.CR>> }

(* "a payload that is valid for the category" *)
ValidPayloads(category) ==
    {d \in JsonSamples \cup XmlSamples : Validates(category, d)}

(***************************************************************************)
(* State.                                                                  *)
(*   cwd     the working directory: what its entry .pm and the entry .pm   *)
(*           of its parent are, whether <root>/.gitignore and <root>/cache *)
(*           exist                                                         *)
(*   dirs    category directories that exist under <root>/cache            *)
(*   files   the files under <root>/cache                                  *)
(*   audit   the content of <root>/audit.jsonl                             *)
(*   clock   datetime.now(UTC), in seconds                                 *)
(*   pc      where each process is                                         *)
(*   call    arguments and locals of the operation a process runs          *)
(*   cw, al  arguments and locals of its cache_write / audit_log frame     *)
(*   ret     where the frame returns to                                    *)
(*   ncalls  number of calls a process has started                         *)
(*   last    outcome of the last call a process finished                   *)
(*   wrote   history: for each cache path, the call and payload of the     *)
(*           cache_write whose rename reached it last                      *)
(*   log     history: the calls whose audit_log wrote, in order of write   *)
(***************************************************************************)
VARIABLES cwd, dirs, files, audit, clock, pc, call, cw, al, ret, ncalls,
          last, wrote, log

fsvars == <<cwd, dirs, files, audit>>

vars == <<cwd, dirs, files, audit, clock, pc, call, cw, al, ret, ncalls,
          last, wrote, log>>

NoCall == [op |-> "none"]

NoFrame == [pm_dir |-> NoRoot]

CallId(p) == <<p, ncalls[p]>>

RECURSIVE SumOver(_, _)
SumOver(f, S) ==
    IF S = {} THEN 0
    ELSE LET x == CHOOSE y \in S : TRUE IN f[x] + SumOver(f, S \ {x})

TotalCalls == SumOver(ncalls, Procs)

(* init.py:53-58: the line `pm init` writes. *)
InitEvent == [ts |-> 0, op |-> "init"]

(* The root as `pm init` leaves it (init.py:43-58). *)
Init ==
    /\ cwd = [pm |-> "dir", up |-> "absent", gitignore |-> TRUE,
              cache |-> TRUE]
    /\ dirs = CACHE_SUBDIRS
    /\ files = <<>>
    /\ audit = Line(JsonDumps(InitEvent))
    /\ clock = 0
    /\ pc = [p \in Procs |-> "idle"]
    /\ call = [p \in Procs |-> NoCall]
    /\ cw = [p \in Procs |-> NoFrame]
    /\ al = [p \in Procs |-> NoFrame]
    /\ ret = [p \in Procs |-> "idle"]
    /\ ncalls = [p \in Procs |-> 0]
    /\ last = [p \in Procs |-> NoCall]
    /\ wrote = <<>>
    /\ log = <<>>

(* datetime.now(UTC): time has passed since the clock was last read; the  *)
(* clock stops at the horizon MaxClock, where two readings are equal.     *)
ClockReadings == {IF clock < MaxClock THEN clock + 1 ELSE clock}

(***************************************************************************)
(* Leaving a frame.                                                        *)
(***************************************************************************)
(* What is remembered of a call once it is over: the arguments, without   *)
(* the locals.                                                             *)
Args(c) ==
    IF c.op \in {"cache_write", "cache_read", "audit_log"} THEN c
    ELSE IF c.op = "search"
    THEN [op |-> c.op, pm_dir |-> c.pm_dir, cache_dir |-> c.cache_dir,
          query |-> c.query, max_results |-> c.max_results,
          refresh |-> c.refresh]
    ELSE [op |-> c.op, pm_dir |-> c.pm_dir]

(* The operation of p returns `value` to its caller. *)
Finish(p, value) ==
    /\ pc' = [pc EXCEPT ![p] = "idle"]
    /\ last' = [last EXCEPT ![p] =
                   [op |-> call[p].op, id |-> CallId(p),
                    call |-> Args(call[p]),
                    status |-> "returned", value |-> value]]
    /\ call' = [call EXCEPT ![p] = NoCall]

(* An exception leaves the operation of p: none of search, fetch, cite     *)
(* catches OSError or UnicodeDecodeError.                                  *)
Raise(p, exc) ==
    /\ pc' = [pc EXCEPT ![p] = "idle"]
    /\ last' = [last EXCEPT ![p] =
                   [op |-> call[p].op, id |-> CallId(p),
                    call |-> Args(call[p]),
                    status |-> "raised", value |-> exc]]
    /\ call' = [call EXCEPT ![p] = NoCall]

(* raise_for_status or httpx.get raises in a batch loop after `answered`   *)
(* requests of the call were answered (fetch.py:163-164).                  *)
RaiseAfter(p, exc, answered) ==
    /\ pc' = [pc EXCEPT ![p] = "idle"]
    /\ last' = [last EXCEPT ![p] =
                   [op |-> call[p].op, id |-> CallId(p),
                    call |-> Args(call[p]),
                    status |-> "raised", value |-> exc,
                    answered |-> answered]]
    /\ call' = [call EXCEPT ![p] = NoCall]

(* cache_write / audit_log return None to the frame that called them. *)
Return(p) ==
    IF ret[p] = "idle"
    THEN Finish(p, Miss)
    ELSE /\ pc' = [pc EXCEPT ![p] = ret[p]]
         /\ UNCHANGED <<last, call>>

(***************************************************************************)
(* cache_write (cache.py:71-97), one action per system call.               *)
(***************************************************************************)
(* cache_write that goes on without a root *)
CacheWriteNeverNoop(pm_dir) == FALSE

(* cache.py:80 *)
CacheWriteIsNoop(pm_dir) == pm_dir = NoRoot

(* os.write(fd, bytes) returns the number of bytes it stored; the count    *)
(* can be short of the length (full disk, file size limit).                *)
OsWriteCounts(bytes) ==
    IF bytes = <<>> THEN {0}
    ELSE {n \in 1..Len(bytes) : n <= MaxShort \/ n = Len(bytes)}

(* an except block that forgets the temporary file *)
CacheWriteCleanupLeak(fs, tmp) == fs

(* cache.py:93-96: close the descriptor, unlink the temporary file. *)
CacheWriteCleanup(fs, tmp) == Unlink(fs, tmp)

CwPath(p) == Path(cw[p].category, cw[p].key)

CwTmp(p) == Path(cw[p].category, TmpKey(p))

(* cache.py:80-84 *)
CacheWriteEnter(p) ==
    /\ pc[p] = "cw_enter"
    /\ IF CacheWriteIsNoop(cw[p].pm_dir)
       THEN /\ Return(p)
            /\ UNCHANGED <<cwd, dirs>>
       ELSE /\ cwd' = [cwd EXCEPT !.pm = "dir", !.cache = TRUE]
            /\ dirs' = dirs \cup {cw[p].category}
            /\ pc' = [pc EXCEPT ![p] = "cw_mkstemp"]
            /\ UNCHANGED <<last, call>>
    /\ UNCHANGED <<files, audit, clock, cw, al, ret, ncalls, wrote, log>>

(* cache.py:87: mkstemp is outside the try block. *)
CacheWriteMkstemp(p) ==
    /\ pc[p] = "cw_mkstemp"
    /\ \/ /\ files' = WriteFile(files, CwTmp(p), <<>>)
          /\ pc' = [pc EXCEPT ![p] = "cw_write"]
          /\ UNCHANGED <<last, call>>
       \/ /\ Raise(p, "OSError")
          /\ UNCHANGED files
    /\ UNCHANGED <<cwd, dirs, audit, clock, cw, al, ret, ncalls, wrote, log>>

(* cache.py:89: the return value of os.write is not looked at. *)
CacheWriteWrite(p) ==
    /\ pc[p] = "cw_write"
    /\ \/ \E n \in OsWriteCounts(Encode(cw[p].data)) :
             /\ files' = WriteFile(files, CwTmp(p),
                                   SubSeq(Encode(cw[p].data), 1, n))
             /\ pc' = [pc EXCEPT ![p] = "cw_close"]
       \/ /\ pc' = [pc EXCEPT ![p] = "cw_except"]
          /\ UNCHANGED files
    /\ UNCHANGED <<cwd, dirs, audit, clock, call, cw, al, ret, ncalls, last,
                   wrote, log>>

(* cache.py:90 *)
CacheWriteClose(p) ==
    /\ pc[p] = "cw_close"
    /\ \/ pc' = [pc EXCEPT ![p] = "cw_replace"]
       \/ pc' = [pc EXCEPT ![p] = "cw_except"]
    /\ UNCHANGED <<cwd, dirs, files, audit, clock, call, cw, al, ret, ncalls,
                   last, wrote, log>>

(* cache.py:91 *)
CacheWriteReplace(p) ==
    /\ pc[p] = "cw_replace"
    /\ \/ /\ files' = Replace(files, CwTmp(p), CwPath(p))
          /\ wrote' = [q \in DOMAIN wrote \cup {CwPath(p)} |->
                          IF q = CwPath(p)
                          THEN [id |-> CallId(p), data |-> cw[p].data]
                          ELSE wrote[q]]
          /\ Return(p)
       \/ /\ pc' = [pc EXCEPT ![p] = "cw_except"]
          /\ UNCHANGED <<files, wrote, last, call>>
    /\ UNCHANGED <<cwd, dirs, audit, clock, cw, al, ret, ncalls, log>>

(* cache.py:92-97 *)
CacheWriteExcept(p) ==
    /\ pc[p] = "cw_except"
    /\ files' = CacheWriteCleanup(files, CwTmp(p))
    /\ Raise(p, "OSError")
    /\ UNCHANGED <<cwd, dirs, audit, clock, cw, al, ret, ncalls, wrote, log>>

(***************************************************************************)
(* audit_log (cache.py:105-126).                                           *)
(***************************************************************************)
(* cache.py:114 *)
AuditLogIsNoop(pm_dir) == pm_dir = NoRoot

(* a stamp that keeps the ts of the caller when there is one *)
StampUnlessGiven(event, now) == event @@ [ts |-> now]

(* cache.py:117: the logger's clock replaces any ts of the caller. *)
Stamp(event, now) == [ts |-> now] @@ event

(* cache.py:114-121 *)
AuditLogEnter(p) ==
    /\ pc[p] = "al_enter"
    /\ IF AuditLogIsNoop(al[p].pm_dir)
       THEN /\ Return(p)
            /\ UNCHANGED <<al, clock>>
       ELSE /\ \E now \in ClockReadings :
                  /\ clock' = now
                  /\ al' = [al EXCEPT ![p] =
                         [pm_dir |-> al[p].pm_dir,
                          event |-> Stamp(al[p].event, now),
                          line |-> Line(JsonDumps(Stamp(al[p].event, now))),
                          offset |-> 0]]
            /\ pc' = [pc EXCEPT ![p] = "al_open"]
            /\ UNCHANGED <<last, call>>
    /\ UNCHANGED <<cwd, dirs, files, audit, cw, ret, ncalls, wrote, log>>

(* os.open with O_CREAT and without O_TRUNC: an existing file keeps its   *)
(* content, a missing one is created empty.                                *)
OpenForAppend(content) ==
    IF content = NoAudit THEN <<>> ELSE content

(* cache.py:122: O_WRONLY | O_APPEND | O_CREAT *)
AuditLogOpen(p) ==
    /\ pc[p] = "al_open"
    /\ audit' = OpenForAppend(audit)
    /\ pc' = [pc EXCEPT ![p] = "al_write"]
    /\ UNCHANGED <<cwd, dirs, files, clock, call, cw, al, ret, ncalls, last,
                   wrote, log>>

(* cache.py:124: one os.write of the whole line *)
AuditLogWrite(p) ==
    /\ pc[p] = "al_write"
    /\ audit' = AppendWrite(audit, al[p].offset, al[p].line)
    /\ log' = Append(log, [id |-> CallId(p), event |-> al[p].event])
    /\ pc' = [pc EXCEPT ![p] = "al_close"]
    /\ UNCHANGED <<cwd, dirs, files, clock, call, cw, al, ret, ncalls, last,
                   wrote>>

(* cache.py:126 *)
AuditLogClose(p) ==
    /\ pc[p] = "al_close"
    /\ Return(p)
    /\ UNCHANGED <<cwd, dirs, files, audit, clock, cw, al, ret, ncalls, wrote,
                   log>>

(***************************************************************************)
(* The process stops for good at any point of a call (kill, power loss).   *)
(***************************************************************************)
Crash(p) ==
    /\ pc[p] \notin {"idle", "crashed"}
    /\ pc' = [pc EXCEPT ![p] = "crashed"]
    /\ last' = [last EXCEPT ![p] =
                   [op |-> call[p].op, id |-> CallId(p),
                    call |-> Args(call[p]),
                    status |-> "crashed", value |-> <<pc[p], ret[p]>>]]
    /\ call' = [call EXCEPT ![p] = NoCall]
    /\ cw' = [cw EXCEPT ![p] = NoFrame]
    /\ al' = [al EXCEPT ![p] = NoFrame]
    /\ ret' = [ret EXCEPT ![p] = "idle"]
    /\ UNCHANGED <<cwd, dirs, files, audit, clock, ncalls, wrote, log>>

(***************************************************************************)
(* Direct calls of the three primitives, as tests/test_cache.py makes      *)
(* them.                                                                   *)
(***************************************************************************)
TestKey(category) ==
    IF category = "fetch" THEN <<<<Ch.ONE, Ch.ZERO>>, ".xml">>
    ELSE <<<<Ch.A>>, ".json">>

(* With a root, a JSON and an XML category; without one the arguments     *)
(* are not looked at.                                                      *)
TestTargets ==
    {<<Root, "search">>, <<Root, "fetch">>, <<NoRoot, "search">>}

TestPayloads(target) ==
    IF target[1] = NoRoot THEN {<<Ch.ONE, Ch.ONE>>}
    ELSE ValidPayloads(target[2])

TestCacheWrite(p) ==
    /\ pc[p] = "idle"
    /\ TotalCalls < MaxCalls
    /\ \E target \in TestTargets : \E data \in TestPayloads(target) :
          /\ call' = [call EXCEPT ![p] =
                         [op |-> "cache_write", pm_dir |-> target[1],
                          category |-> target[2],
                          key |-> TestKey(target[2]), data |-> data]]
          /\ cw' = [cw EXCEPT ![p] =
                       [pm_dir |-> target[1], category |-> target[2],
                        key |-> TestKey(target[2]), data |-> data]]
    /\ ncalls' = [ncalls EXCEPT ![p] = @ + 1]
    /\ ret' = [ret EXCEPT ![p] = "idle"]
    /\ pc' = [pc EXCEPT ![p] = "cw_enter"]
    /\ UNCHANGED <<cwd, dirs, files, audit, clock, al, last, wrote, log>>

TestCacheRead(p) ==
    /\ pc[p] = "idle"
    /\ TotalCalls < MaxCalls
    /\ \E target \in TestTargets :
          call' = [call EXCEPT ![p] =
                      [op |-> "cache_read", pm_dir |-> target[1],
                       category |-> target[2], key |-> TestKey(target[2])]]
    /\ ncalls' = [ncalls EXCEPT ![p] = @ + 1]
    /\ pc' = [pc EXCEPT ![p] = "cr_read"]
    /\ UNCHANGED <<cwd, dirs, files, audit, clock, cw, al, ret, last, wrote, log>>

(* cache.py:47-68 *)
CacheReadStep(p) ==
    /\ pc[p] = "cr_read"
    /\ LET r == cache_read(files, call[p].pm_dir, call[p].category,
                           call[p].key)
       IN IF r = DecodeError
          THEN Raise(p, "UnicodeDecodeError")
          ELSE Finish(p, r)
    /\ UNCHANGED <<cwd, dirs, files, audit, clock, cw, al, ret, ncalls, wrote,
                   log>>

TestAuditLog(p) ==
    /\ pc[p] = "idle"
    /\ TotalCalls < MaxCalls
    /\ \E pm_dir \in {Root, NoRoot} :
       \E event \in IF pm_dir = NoRoot THEN {[op |-> "test"]}
                    ELSE {[op |-> "test"], [op |-> "test", ts |-> 7]} :
          /\ call' = [call EXCEPT ![p] =
                         [op |-> "audit_log", pm_dir |-> pm_dir,
                          event |-> event]]
          /\ al' = [al EXCEPT ![p] = [pm_dir |-> pm_dir, event |-> event]]
    /\ ncalls' = [ncalls EXCEPT ![p] = @ + 1]
    /\ ret' = [ret EXCEPT ![p] = "idle"]
    /\ pc' = [pc EXCEPT ![p] = "al_enter"]
    /\ UNCHANGED <<cwd, dirs, files, audit, clock, cw, last, wrote, log>>

CacheWriteStep(p) ==
    \/ CacheWriteEnter(p)
    \/ CacheWriteMkstemp(p)
    \/ CacheWriteWrite(p)
    \/ CacheWriteClose(p)
    \/ CacheWriteReplace(p)
    \/ CacheWriteExcept(p)

AuditLogStep(p) ==
    \/ AuditLogEnter(p)
    \/ AuditLogOpen(p)
    \/ AuditLogWrite(p)
    \/ AuditLogClose(p)

Next ==
    \E p \in Procs :
          \/ TestCacheWrite(p)
          \/ TestCacheRead(p)
          \/ CacheReadStep(p)
          \/ TestAuditLog(p)
          \/ CacheWriteStep(p)
          \/ AuditLogStep(p)
          \/ Crash(p)

Spec == Init /\ [][Next]_vars

(***************************************************************************)
(* Properties of the cache store and the audit logger, checked under Spec. *)
(***************************************************************************)
CwLabels ==
    {"cw_enter", "cw_mkstemp", "cw_write", "cw_close", "cw_replace",
     "cw_except"}

AlLabels == {"al_enter", "al_open", "al_write", "al_close"}

KeyOf(path) == <<path[2], path[3]>>

Count(seq, x) == Cardinality({i \in 1..Len(seq) : seq[i] = x})

(* C1: for every category and key, after any sequence of cache_write       *)
(* calls on a present root, cache_read of the key returns exactly the text *)
(* of the most recent write.                                               *)
C1_ReadReturnsLastWrite ==
    \A path \in DOMAIN wrote :
        cache_read(files, Root, path[1], KeyOf(path)) = wrote[path].data

(* C2: at every moment the file under a final cache name is either absent  *)
(* or holds the complete payload of one finished write; no partial content *)
(* is visible under the final name.                                        *)
C2_NoPartialEntry ==
    \A path \in FinalPaths(files) :
        /\ path \in DOMAIN wrote
        /\ files[path] = Encode(wrote[path].data)

C4_OneWriterWins ==
    \A p, q \in Procs :
        ( /\ p # q
          /\ pc[p] = "idle"
          /\ pc[q] = "idle"
          /\ last[p].op = "cache_write"
          /\ last[q].op = "cache_write"
          /\ last[p].status = "returned"
          /\ last[q].status = "returned"
          /\ last[p].call.pm_dir = Root
          /\ last[q].call.pm_dir = Root
          /\ last[p].call.category = last[q].call.category )
        => files[Path(last[p].call.category, last[p].call.key)]
              \in {Encode(last[p].call.data), Encode(last[q].call.data)}

C6_AppendOnly ==
    /\ [][IsPrefixOf(audit, audit')]_vars
    /\ [](/\ _read_events(audit) =
               <<JsonDumps(InitEvent)>> \o
               [i \in 1..Len(log) |-> JsonDumps(log[i].event)]
          /\ \A i, j \in 1..Len(log) :
                (i < j /\ log[i].id[1] = log[j].id[1])
                   => log[i].id[2] < log[j].id[2])

(* C6 witness: one process has made two audit_log calls in a row. *)
C6_Witness ==
    \E i, j \in 1..Len(log) :
        /\ i < j
        /\ log[i].id[1] = log[j].id[1]
        /\ Len(audit) = 3 * LineLen

(* C10: with no state root, cache_read returns a miss, cache_write and     *)
(* audit_log return without raising, and none of them creates a file or a  *)
(* directory.                                                              *)
NoRootFrame(p) ==
    \/ pc[p] \in CwLabels /\ cw[p].pm_dir = NoRoot
    \/ pc[p] \in AlLabels /\ al[p].pm_dir = NoRoot
    \/ pc[p] = "cr_read" /\ call[p].pm_dir = NoRoot

C10_NoRootNoOp ==
    [][\A p \in Procs :
          (NoRootFrame(p) /\ pc'[p] # pc[p] /\ pc'[p] # "crashed")
             => /\ fsvars' = fsvars
                /\ pc'[p] = "idle"
                /\ last'[p].status = "returned"
                /\ last'[p].value = Miss]_vars

(* C10 witness: a cache_write and an audit_log without root have returned. *)
C10_Witness ==
    \E p, q \in Procs :
        /\ last[p].op = "cache_write"
        /\ last[p].call.pm_dir = NoRoot
        /\ last[p].status = "returned"
        /\ last[q].op = "audit_log"
        /\ last[q].call.pm_dir = NoRoot
        /\ last[q].status = "returned"

(***************************************************************************)
(* Corrupted entries: a file put into a slot without cache_write, as       *)
(* tests/test_cache.py:75-87 does with path.write_text, then read.         *)
(***************************************************************************)
(* texts json.loads rejects: '{"t', '1a', '' *)
MalformedJson ==
    { <<Ch.LBRACE, Ch.QUOTE, Ch.T>>, <<Ch.ONE, Ch.A>>, <<>> }

(* texts ET.fromstring rejects: '<a><a', '11', '' *)
MalformedXml ==
    { TagOpen \o <<Ch.LT, Ch.A>>, <<Ch.ONE, Ch.ONE>>, <<>> }

(* bytes that are not UTF-8: 0xFF, a lead byte with nothing after it, a   *)
(* continuation byte with no lead *)
Undecodable ==
    { <<255>>, <<Ch.ONE, 195>>, <<128, Ch.ONE>> }

Malformed(category) ==
    IF category \in _JSON_CATEGORIES THEN MalformedJson ELSE MalformedXml

(* what the file of a slot is made to hold *)
SlotContents(category) ==
    {Encode(t) : t \in Malformed(category) \cup ValidPayloads(category)}
        \cup Undecodable

(* test_cache.py:77-79, 84-86: path.write_text(...) into the slot, then    *)
(* the call of cache_read                                                  *)
TestReadCorrupted(p) ==
    /\ pc[p] = "idle"
    /\ TotalCalls < MaxCalls
    /\ \E category \in CACHE_SUBDIRS : \E bytes \in SlotContents(category) :
          /\ files' = WriteFile(files, Path(category, TestKey(category)),
                                bytes)
          /\ wrote' = [q \in DOMAIN wrote \ {Path(category, TestKey(category))}
                          |-> wrote[q]]
          /\ call' = [call EXCEPT ![p] =
                         [op |-> "cache_read", pm_dir |-> Root,
                          category |-> category, key |-> TestKey(category)]]
    /\ ncalls' = [ncalls EXCEPT ![p] = @ + 1]
    /\ pc' = [pc EXCEPT ![p] = "cr_read"]
    /\ UNCHANGED <<cwd, dirs, audit, clock, cw, al, ret, last, log>>

NextRead ==
    \E p \in Procs :
          \/ TestReadCorrupted(p)
          \/ TestCacheRead(p)
          \/ CacheReadStep(p)

SpecRead == Init /\ [][NextRead]_vars

(* the file cache_read of p is about to read *)
ReadPath(p) == Path(call[p].category, call[p].key)

(* p is about to read a slot with a root, and the slot holds one of bytes *)
ReadsOneOf(p, contents) ==
    /\ pc[p] = "cr_read"
    /\ call[p].pm_dir = Root
    /\ ReadPath(p) \in DOMAIN files
    /\ files[ReadPath(p)] \in contents

(* C11: cache_read of a slot whose file does not parse in the format of   *)
(* the category (malformed JSON in search, cite, download; malformed XML  *)
(* in fetch) returns a miss and does not raise.                            *)
C11_MalformedIsMiss ==
    [][\A p \in Procs :
          ( /\ ReadsOneOf(p, {Encode(t) : t \in Malformed(call[p].category)})
            /\ pc'[p] = "idle" )
             => /\ last'[p].status = "returned"
                /\ last'[p].value = Miss]_vars

(* C11 witness: a read of malformed XML in fetch and a read of malformed  *)
(* JSON in a JSON category have both returned a miss.                      *)
C11_Witness ==
    \E p, q \in Procs :
        /\ last[p].op = "cache_read" /\ last[q].op = "cache_read"
        /\ last[p].call.category = "fetch"
        /\ last[q].call.category = "cite"
        /\ last[p].status = "returned" /\ last[q].status = "returned"
        /\ last[p].value = Miss /\ last[q].value = Miss
        /\ Path("fetch", TestKey("fetch")) \in DOMAIN files
        /\ Path("cite", TestKey("cite")) \in DOMAIN files
        /\ files[Path("fetch", TestKey("fetch"))]
               = Encode(TagOpen \o <<Ch.LT, Ch.A>>)
        /\ files[Path("cite", TestKey("cite"))]
               = Encode(<<Ch.LBRACE, Ch.QUOTE, Ch.T>>)

(* C12: cache_read of a slot whose file exists but is not UTF-8 text      *)
(* returns a miss and does not raise.                                      *)
C12_UndecodableIsMiss ==
    [][\A p \in Procs :
          (ReadsOneOf(p, Undecodable) /\ pc'[p] = "idle")
             => /\ last'[p].status = "returned"
                /\ last'[p].value = Miss]_vars

(***************************************************************************)
(* The operations that use the cache store and the audit logger.           *)
(***************************************************************************)
(* str.strip() and the \s of re.sub, for the whitespace of Ch *)
IsSpace(c) == c \in {Ch.TAB, Ch.LF, Ch.CR, Ch.SP}

RECURSIVE LStrip(_)
LStrip(t) ==
    IF t # <<>> /\ IsSpace(Head(t)) THEN LStrip(Tail(t)) ELSE t

RECURSIVE RStrip(_)
RStrip(t) ==
    IF t # <<>> /\ IsSpace(t[Len(t)])
    THEN RStrip(SubSeq(t, 1, Len(t) - 1))
    ELSE t

Strip(t) == RStrip(LStrip(t))

(* a normalisation that leaves the whitespace as it is *)
KeepSpaces(t) == t

(* re.sub(r"\s+", " ", t) *)
RECURSIVE CollapseSpaces(_)
CollapseSpaces(t) ==
    IF t = <<>> THEN <<>>
    ELSE IF IsSpace(Head(t)) THEN <<Ch.SP>> \o CollapseSpaces(LStrip(t))
    ELSE <<Head(t)>> \o CollapseSpaces(Tail(t))

(* The arguments cache_dir and pm_dir: the CLI passes the detected root as *)
(* both (cli.py:79-80, fetch.py:290-291, cite.py:298-299).                 *)
DirChoices ==
    {[cache_dir |-> Root, pm_dir |-> Root],
     [cache_dir |-> NoRoot, pm_dir |-> NoRoot]}

(* The commands of a session run one after the other: an operation starts *)
(* when no other is in flight.                                             *)
Quiet == \A q \in Procs : pc[q] \in {"idle", "crashed"}

(* The session goes on in the same process until that process crashes;    *)
(* the next process then takes over.                                       *)
Turn(p) == Quiet /\ \A q \in Procs : q < p => pc[q] = "crashed"

(* an operation that never looks into the cache *)
CacheLookupNever(cache_dir, refresh) == FALSE

(* search.py:57, fetch.py:131, cite.py:72: the cache is looked into *)
CacheLookup(cache_dir, refresh) == cache_dir # NoRoot /\ ~refresh

(* PMIDs as texts *)
P10 == <<Ch.ONE, Ch.ZERO>>

P20 == <<Ch.TWO, Ch.ZERO>>

P30 == <<Ch.THREE, Ch.ZERO>>

PMIDS == {P10, P20, P30}

(* strftime("%Y-%m-%dT%H:%M:%SZ") of a clock reading *)
TimestampText(now) == Digits(now)

CallAuditLog(p, pm_dir, event, label) ==
    /\ al' = [al EXCEPT ![p] = [pm_dir |-> pm_dir, event |-> event]]
    /\ ret' = [ret EXCEPT ![p] = label]
    /\ pc' = [pc EXCEPT ![p] = "al_enter"]

CallCacheWrite(p, pm_dir, category, key, data, label) ==
    /\ cw' = [cw EXCEPT ![p] =
                 [pm_dir |-> pm_dir, category |-> category, key |-> key,
                  data |-> data]]
    /\ ret' = [ret EXCEPT ![p] = label]
    /\ pc' = [pc EXCEPT ![p] = "cw_enter"]

(***************************************************************************)
(* search (search.py:22-126).  Object keys are written with their first    *)
(* letter; the SHA-256 digest of key_data is modelled by key_data itself.  *)
(***************************************************************************)
DEFAULT_MAX == 10000

(* search.py:22-26 *)
_cache_key(query, max_results) ==
    <<JsonObject(<< <<<<Ch.M>>, JsonInt(max_results)>>,
                    <<<<Ch.Q>>, JsonStr(CollapseSpaces(Strip(query)))>> >>),
      ".json">>

(* search.py:114-123 *)
SearchCacheData(query, max_results, pmids, timestamp) ==
    JsonObject(<< <<<<Ch.Q>>, JsonStr(query)>>,
                  <<<<Ch.M>>, JsonInt(max_results)>>,
                  <<<<Ch.P>>, JsonList([i \in 1..Len(pmids) |->
                                           JsonStr(pmids[i])])>>,
                  <<<<Ch.C>>, JsonInt(Len(pmids))>>,
                  <<<<Ch.T>>, JsonStr(TimestampText(timestamp))>> >>)

Queries == {<<Ch.A>>, <<Ch.SP>>}

(* queries that differ in whitespace only, and queries that differ in a   *)
(* character that is not whitespace                                        *)
KeyQueries ==
    {<<Ch.A, Ch.SP, Ch.C>>, <<Ch.SP, Ch.A, Ch.SP, Ch.SP, Ch.C, Ch.SP>>,
     <<Ch.A, Ch.TAB, Ch.C>>, <<Ch.A, Ch.C>>}

(* --max given on the command line (search.py:172-190), or the default *)
Limits == {DEFAULT_MAX, 5}

(* what the esearch request can answer: a list of PMIDs *)
SearchResults == {<<>>, <<P20, P10>>}

(* the envelopes search can have stored *)
Envelopes ==
    [query : Queries \cup KeyQueries, max_results : Limits,
     pmids : SearchResults, timestamp : 0..MaxClock]

NotEnvelope == [query |-> <<>>, max_results |-> 0, pmids |-> <<>>,
                timestamp |-> -1]

(* the text of each envelope, as search.py:114-123 serialises it *)
EnvelopeTexts ==
    [e \in Envelopes |->
        SearchCacheData(e.query, e.max_results, e.pmids, e.timestamp)]

(* a json.loads that yields an empty envelope whatever the text *)
SearchLoadsEmpty(text) ==
    [query |-> <<>>, max_results |-> 0, pmids |-> <<>>, timestamp |-> 0]

(* search.py:61-63: json.loads(cached), then data["pmids"] and             *)
(* data.get("timestamp"); NotEnvelope when the text is no such object.     *)
SearchLoads(text) ==
    LET hits == {e \in Envelopes : EnvelopeTexts[e] = text}
    IN IF hits = {} THEN NotEnvelope ELSE CHOOSE e \in hits : TRUE

(* a search that writes its cache entry before its audit event *)
SearchCacheFirst(label) ==
    IF label = "s_net" THEN "s_cache"
    ELSE IF label = "s_cache" THEN "s_audit"
    ELSE "s_return"

(* search.py:86-126: the request, then the audit event (95-108), then the *)
(* cache entry (110-124), then the return.                                 *)
SearchNextStep(label) ==
    IF label = "s_net" THEN "s_audit"
    ELSE IF label = "s_audit" THEN "s_cache"
    ELSE "s_return"

(* search.py:29-36: a call of search, max_results at its default or given *)
SearchCallOf(p, queries, limits, choices, refreshes) ==
    /\ pc[p] = "idle"
    /\ Turn(p)
    /\ TotalCalls < MaxCalls
    /\ \E query \in queries, max_results \in limits, d \in choices,
          refresh \in refreshes :
          call' = [call EXCEPT ![p] =
                      [op |-> "search", query |-> query,
                       max_results |-> max_results,
                       cache_dir |-> d.cache_dir, pm_dir |-> d.pm_dir,
                       refresh |-> refresh, pmids |-> <<>>]]
    /\ ncalls' = [ncalls EXCEPT ![p] = @ + 1]
    /\ pc' = [pc EXCEPT ![p] = "s_check"]
    /\ UNCHANGED <<cwd, dirs, files, audit, clock, cw, al, ret, last, wrote, log>>

SearchCallWith(p, queries, choices) ==
    SearchCallOf(p, queries, {DEFAULT_MAX}, choices, BOOLEAN)

SearchCall(p) == SearchCallWith(p, Queries, DirChoices)

(* search.py:53-83 *)
SearchCheck(p) ==
    /\ pc[p] = "s_check"
    /\ LET c == call[p]
           cached == cache_read(files, c.cache_dir, "search",
                                _cache_key(c.query, c.max_results))
           data == SearchLoads(cached)
       IN IF Strip(c.query) = <<>>
          THEN /\ Raise(p, "ValueError")
               /\ UNCHANGED <<al, ret>>
          ELSE IF ~CacheLookup(c.cache_dir, c.refresh) \/ cached = Miss
          THEN /\ pc' = [pc EXCEPT ![p] = "s_net"]
               /\ UNCHANGED <<al, ret, last, call>>
          ELSE IF cached = DecodeError
          THEN /\ Raise(p, "UnicodeDecodeError")
               /\ UNCHANGED <<al, ret>>
          ELSE IF data = NotEnvelope
          THEN /\ Raise(p, "KeyError")
               /\ UNCHANGED <<al, ret>>
          ELSE IF c.pm_dir # NoRoot
          THEN /\ call' = [call EXCEPT ![p].pmids = data.pmids]
               /\ CallAuditLog(p, c.pm_dir,
                     [op |-> "search", db |-> "pubmed", query |-> c.query,
                      max |-> c.max_results, count |-> Len(data.pmids),
                      cached |-> TRUE, original_ts |-> data.timestamp],
                     "s_return")
               /\ UNCHANGED last
          ELSE /\ call' = [call EXCEPT ![p].pmids = data.pmids]
               /\ pc' = [pc EXCEPT ![p] = "s_return"]
               /\ UNCHANGED <<al, ret, last>>
    /\ UNCHANGED <<cwd, dirs, files, audit, clock, cw, ncalls, wrote, log>>

(* search.py:86-93: the request fails, or answers a list of PMIDs *)
SearchNet(p) ==
    /\ pc[p] = "s_net"
    /\ \/ /\ Raise(p, "HTTPError")
       \/ \E pmids \in SearchResults :
             /\ call' = [call EXCEPT ![p].pmids = pmids]
             /\ pc' = [pc EXCEPT ![p] = SearchNextStep("s_net")]
             /\ UNCHANGED last
    /\ UNCHANGED <<cwd, dirs, files, audit, clock, cw, al, ret, ncalls, wrote,
                   log>>

(* search.py:95-108 *)
SearchAudit(p) ==
    /\ pc[p] = "s_audit"
    /\ LET c == call[p] IN
       IF c.pm_dir # NoRoot
       THEN CallAuditLog(p, c.pm_dir,
               [op |-> "search", db |-> "pubmed", query |-> c.query,
                max |-> c.max_results, count |-> Len(c.pmids),
                cached |-> FALSE, refreshed |-> c.refresh],
               SearchNextStep("s_audit"))
       ELSE /\ pc' = [pc EXCEPT ![p] = SearchNextStep("s_audit")]
            /\ UNCHANGED <<al, ret>>
    /\ UNCHANGED <<cwd, dirs, files, audit, clock, call, cw, ncalls, last, wrote,
                   log>>

(* search.py:110-124 *)
SearchCache(p) ==
    /\ pc[p] = "s_cache"
    /\ LET c == call[p] IN
       IF c.cache_dir # NoRoot
       THEN \E now \in ClockReadings :
               /\ clock' = now
               /\ CallCacheWrite(p, c.cache_dir, "search",
                     _cache_key(c.query, c.max_results),
                     SearchCacheData(c.query, c.max_results, c.pmids, now),
                     SearchNextStep("s_cache"))
       ELSE /\ pc' = [pc EXCEPT ![p] = SearchNextStep("s_cache")]
            /\ UNCHANGED <<cw, ret, clock>>
    /\ UNCHANGED <<cwd, dirs, files, audit, call, al, ncalls, last, wrote, log>>

(* search.py:83, search.py:126 *)
SearchReturn(p) ==
    /\ pc[p] = "s_return"
    /\ Finish(p, call[p].pmids)
    /\ UNCHANGED <<cwd, dirs, files, audit, clock, cw, al, ret, ncalls, wrote,
                   log>>

SearchStep(p) ==
    \/ SearchCheck(p)
    \/ SearchNet(p)
    \/ SearchAudit(p)
    \/ SearchCache(p)
    \/ SearchReturn(p)

(***************************************************************************)
(* Properties of search, checked under SpecSearch.                         *)
(***************************************************************************)
LogIds == {log[i].id : i \in 1..Len(log)}

(* the cache path of the query of a search call *)
SearchPath(c) == Path("search", _cache_key(c.query, c.max_results))

(* p stopped in a search given a root, after the request was answered and *)
(* the audit event was written, and before the rename of the cache entry  *)
CrashedBetween(p) ==
    /\ pc[p] = "crashed"
    /\ last[p].op = "search"
    /\ last[p].call.pm_dir = Root
    /\ \/ last[p].value = <<"al_close", "s_cache">>
       \/ last[p].value[1] = "s_cache"
       \/ last[p].value[1] \in CwLabels

(* C8, as claimed: in a search that is not served from cache and is given *)
(* a root, when the process stops between the audit event and the cache   *)
(* write, the audit log holds the event and the cache holds no entry for  *)
(* the query.                                                              *)
C8_NoEntryAfterCrash ==
    [][\A p \in Procs :
          (pc[p] # "crashed" /\ CrashedBetween(p)')
          => /\ last'[p].id \in LogIds'
             /\ cache_read(files', Root, "search",
                           _cache_key(last'[p].call.query,
                                      last'[p].call.max_results)) = Miss]_vars

(* C8, amended: in a search that is not served from cache and is given a  *)
(* root, the audit event is appended before the cache entry is written;   *)
(* when the process stops between the two steps, the audit log holds the  *)
(* event and no entry was written by the call: every step of a search     *)
(* before its rename leaves the cache entries as they were (none after a  *)
(* miss, the earlier entry after a refresh); and a search that reads the  *)
(* cache and finds no entry fetches from the network.                      *)
C8_AuditBeforeCache ==
    /\ [](\A path \in DOMAIN wrote : wrote[path].id \in LogIds)
    /\ [](\A p \in Procs :
            CrashedBetween(p) =>
                /\ \E i \in 1..Len(log) :
                      /\ log[i].id = last[p].id
                      /\ log[i].event.op = "search"
                      /\ ~log[i].event.cached
                      /\ \E k \in 1..Len(_read_events(audit)) :
                            _read_events(audit)[k] = JsonDumps(log[i].event)
                /\ \A path \in DOMAIN wrote : wrote[path].id # last[p].id)
    /\ [][\A p \in Procs :
            /\ ( /\ call[p].op = "search"
                 /\ pc'[p] # pc[p]
                 /\ ~(pc[p] = "cw_replace" /\ pc'[p] = "s_return") )
               => Finals(files') = Finals(files)
            /\ ( /\ pc[p] = "s_check"
                 /\ pc'[p] \notin {"s_check", "crashed"}
                 /\ Strip(call[p].query) # <<>>
                 /\ cache_read(files, call[p].cache_dir, "search",
                               _cache_key(call[p].query,
                                          call[p].max_results)) = Miss )
               => pc'[p] = "s_net"]_vars

(* a search stopped between its audit event and its cache write, no entry *)
(* for its query, and the next identical search at its request            *)
C8_Witness ==
    \E p, q \in Procs :
        /\ CrashedBetween(p)
        /\ pc[q] = "s_net"
        /\ call[q].op = "search"
        /\ call[q].query = last[p].call.query
        /\ call[q].cache_dir = Root
        /\ ~call[q].refresh
        /\ SearchPath(call[q]) \notin DOMAIN files

(* search alone, by the processes of a session *)
NextSearch ==
    \E p \in Procs :
          \/ SearchCall(p)
          \/ SearchStep(p)
          \/ CacheWriteStep(p)
          \/ AuditLogStep(p)
          \/ Crash(p)

SpecSearch == Init /\ [][NextSearch]_vars

(***************************************************************************)
(* fetch (fetch.py:25-213).  A response of efetch is held in parsed form,  *)
(* as the list of the PMIDs of its articles; the fragment of an article is *)
(* the text ET.tostring gives for it.                                      *)
(***************************************************************************)
BATCH_SIZE == 200

(* fetch.py:16, in hundredths of a second *)
RATE_LIMIT_DELAY == 34

(* a blank identifier *)
Blank == <<Ch.SP>>

(* fetch.py:79: ET.tostring(child, encoding="unicode") *)
Fragment(pmid) == TagOpen \o pmid \o TagClose

(* sequences over S without repetition: the articles a request for the    *)
(* identifiers S can answer, in any order *)
SeqsNoDup(S) ==
    UNION {{r \in [1..n -> S] : \A i, j \in 1..n : i # j => r[i] # r[j]} :
              n \in 0..Cardinality(S)}

Range(seq) == {seq[i] : i \in 1..Len(seq)}

(* first occurrences, in order: the key order of a dict filled from seq *)
RECURSIVE DedupKeepFirst(_)
DedupKeepFirst(seq) ==
    IF seq = <<>> THEN <<>>
    ELSE LET front == DedupKeepFirst(SubSeq(seq, 1, Len(seq) - 1))
             x == seq[Len(seq)]
         IN IF x \in Range(front) THEN front ELSE Append(front, x)

(* a slice that runs to the end of the list *)
BatchToEnd(seq, i, batch_size) == SubSeq(seq, i + 1, Len(seq))

(* uncached_pmids[i : i + batch_size] for the 0-based offset i *)
Batch(seq, i, batch_size) ==
    SubSeq(seq, i + 1, IF i + batch_size < Len(seq) THEN i + batch_size
                       ELSE Len(seq))

(* fetch.py:25-53: the articles of all responses, one after the other *)
_merge_xml_responses(responses) == Flatten(responses)

(* a split that keeps the first article only *)
SplitFirstOnly(merged) ==
    IF merged = <<>> THEN <<>> ELSE <<merged[1]>>

(* fetch.py:56-81: the PMIDs that have a fragment, in dict order *)
split_xml_articles(merged) == DedupKeepFirst(merged)

FetchInputs == {<<>>, <<Blank>>, <<P10, P20>>, <<P10, P10>>}

BatchSizes == {1, BATCH_SIZE}

(* fetch.py:95-104: a call of fetch *)
FetchCallOf(p, inputs, sizes, choices, refreshes) ==
    /\ pc[p] = "idle"
    /\ Turn(p)
    /\ TotalCalls < MaxCalls
    /\ \E pmids \in inputs, batch_size \in sizes,
          d \in choices, refresh \in refreshes :
          call' = [call EXCEPT ![p] =
                      [op |-> "fetch", input |-> pmids, pmids |-> <<>>,
                       batch_size |-> batch_size,
                       rate_limit_delay |-> RATE_LIMIT_DELAY,
                       cache_dir |-> d.cache_dir, pm_dir |-> d.pm_dir,
                       refresh |-> refresh,
                       cached_fragments |-> <<>>, uncached_pmids |-> <<>>,
                       i |-> 0, sleeps |-> 0, requests |-> <<>>,
                       responses |-> <<>>, merged |-> <<>>,
                       direct |-> FALSE, fetched_fragments |-> <<>>,
                       todo |-> <<>>]]
    /\ ncalls' = [ncalls EXCEPT ![p] = @ + 1]
    /\ pc' = [pc EXCEPT ![p] = "f_partition"]
    /\ UNCHANGED <<cwd, dirs, files, audit, clock, cw, al, ret, last, wrote, log>>

FetchCallWith(p, inputs, choices) ==
    FetchCallOf(p, inputs, BatchSizes, choices, BOOLEAN)

FetchCall(p) == FetchCallWith(p, FetchInputs, DirChoices)

(* fetch.py:122-139 *)
FetchPartition(p) ==
    /\ pc[p] = "f_partition"
    /\ LET c == call[p]
           pmids == SelectSeq(c.input, LAMBDA x : Strip(x) # <<>>)
           read(x) == cache_read(files, c.cache_dir, "fetch", <<x, ".xml">>)
           lookup == CacheLookup(c.cache_dir, c.refresh)
           hits == IF lookup THEN {x \in Range(pmids) : read(x) # Miss}
                   ELSE {}
       IN IF pmids = <<>>
          THEN Finish(p, <<>>)
          ELSE IF \E x \in hits : read(x) = DecodeError
          THEN Raise(p, "UnicodeDecodeError")
          ELSE /\ call' = [call EXCEPT ![p] =
                  [c EXCEPT !.pmids = pmids,
                            !.cached_fragments = [x \in hits |-> read(x)],
                            !.uncached_pmids =
                                SelectSeq(pmids, LAMBDA x : x \notin hits)]]
               /\ pc' = [pc EXCEPT ![p] =
                            IF \A x \in Range(pmids) : x \in hits
                            THEN "f_audit" ELSE "f_batch"]
               /\ UNCHANGED last
    /\ UNCHANGED <<cwd, dirs, files, audit, clock, cw, al, ret, ncalls, wrote,
                   log>>

(* a batch loop that skips the batch whose request failed *)
FetchSkipsFailed(exc) == FALSE

(* fetch.py:163-164: httpx.get and raise_for_status are in no try block,   *)
(* their exception leaves fetch                                            *)
FetchPropagates(exc) == TRUE

(* fetch.py:146-165: one request; it fails, or answers some of the         *)
(* articles asked for *)
FetchBatch(p) ==
    /\ pc[p] = "f_batch"
    /\ LET c == call[p]
           batch == Batch(c.uncached_pmids, c.i, c.batch_size)
           slept == IF c.i > 0 /\ c.rate_limit_delay > 0
                    THEN c.sleeps + 1 ELSE c.sleeps
       IN \/ IF FetchPropagates("HTTPError")
             THEN RaiseAfter(p, "HTTPError", Len(c.responses))
             ELSE /\ call' = [call EXCEPT ![p] =
                         [c EXCEPT !.sleeps = slept,
                                   !.requests = Append(@, batch),
                                   !.i = @ + c.batch_size]]
                  /\ pc' = [pc EXCEPT ![p] =
                               IF c.i + c.batch_size < Len(c.uncached_pmids)
                               THEN "f_batch" ELSE "f_merge"]
                  /\ UNCHANGED last
          \/ \E response \in SeqsNoDup(Range(batch)) :
                /\ call' = [call EXCEPT ![p] =
                      [c EXCEPT !.sleeps = slept,
                                !.requests = Append(@, batch),
                                !.responses = Append(@, response),
                                !.i = @ + c.batch_size]]
                /\ pc' = [pc EXCEPT ![p] =
                             IF c.i + c.batch_size < Len(c.uncached_pmids)
                             THEN "f_batch" ELSE "f_merge"]
                /\ UNCHANGED last
    /\ UNCHANGED <<cwd, dirs, files, audit, clock, cw, al, ret, ncalls, wrote,
                   log>>

(* fetch.py:167-187 *)
FetchMerge(p) ==
    /\ pc[p] = "f_merge"
    /\ LET c == call[p]
           merged == _merge_xml_responses(c.responses)
       IN IF c.cache_dir = NoRoot /\ DOMAIN c.cached_fragments = {}
          THEN /\ call' = [call EXCEPT ![p] =
                              [c EXCEPT !.merged = merged, !.direct = TRUE]]
               /\ IF c.pm_dir # NoRoot
                  THEN CallAuditLog(p, c.pm_dir,
                          [op |-> "fetch", db |-> "pubmed",
                           requested |-> Len(c.pmids), cached |-> 0,
                           fetched |-> Len(c.pmids), refreshed |-> c.refresh],
                          "f_return")
                  ELSE /\ pc' = [pc EXCEPT ![p] = "f_return"]
                       /\ UNCHANGED <<al, ret>>
          ELSE /\ call' = [call EXCEPT ![p] =
                              [c EXCEPT !.merged = merged,
                                        !.fetched_fragments =
                                            split_xml_articles(merged),
                                        !.todo = split_xml_articles(merged)]]
               /\ pc' = [pc EXCEPT ![p] = "f_write"]
               /\ UNCHANGED <<al, ret>>
    /\ UNCHANGED <<cwd, dirs, files, audit, clock, cw, ncalls, last, wrote, log>>

(* fetch.py:188-189 *)
FetchWrite(p) ==
    /\ pc[p] = "f_write"
    /\ LET c == call[p] IN
       IF c.todo = <<>>
       THEN /\ pc' = [pc EXCEPT ![p] = "f_audit"]
            /\ UNCHANGED <<call, cw, ret>>
       ELSE /\ call' = [call EXCEPT ![p].todo = Tail(@)]
            /\ CallCacheWrite(p, c.cache_dir, "fetch",
                  <<Head(c.todo), ".xml">>, Fragment(Head(c.todo)),
                  "f_write")
    /\ UNCHANGED <<cwd, dirs, files, audit, clock, al, ncalls, last, wrote, log>>

(* fetch.py:191-203 *)
FetchAudit(p) ==
    /\ pc[p] = "f_audit"
    /\ LET c == call[p] IN
       IF c.pm_dir # NoRoot
       THEN CallAuditLog(p, c.pm_dir,
               [op |-> "fetch", db |-> "pubmed",
                requested |-> Len(c.pmids),
                cached |-> Cardinality(DOMAIN c.cached_fragments),
                fetched |-> Len(c.fetched_fragments),
                refreshed |-> c.refresh],
               "f_return")
       ELSE /\ pc' = [pc EXCEPT ![p] = "f_return"]
            /\ UNCHANGED <<al, ret>>
    /\ UNCHANGED <<cwd, dirs, files, audit, clock, call, cw, ncalls, last, wrote,
                   log>>

(* a reassembly in the insertion order of the two maps: the cached        *)
(* fragments, then the fetched ones *)
FetchCachedFirst(c) ==
    LET hit == SelectSeq(c.pmids, LAMBDA x : x \in DOMAIN c.cached_fragments)
        got == SelectSeq(c.merged,
                   LAMBDA x : x \notin DOMAIN c.cached_fragments)
    IN [k \in 1..Len(hit) |-> c.cached_fragments[hit[k]]]
           \o [k \in 1..Len(got) |-> Fragment(got[k])]

(* fetch.py:205-211: the fragments of the requested PMIDs, in their order *)
FetchAllFragments(c) ==
    LET have == SelectSeq(c.pmids,
                    LAMBDA x : \/ x \in DOMAIN c.cached_fragments
                               \/ x \in Range(c.fetched_fragments))
    IN [k \in 1..Len(have) |->
           IF have[k] \in DOMAIN c.cached_fragments
           THEN c.cached_fragments[have[k]]
           ELSE Fragment(have[k])]

(* fetch.py:183, fetch.py:213 *)
FetchReturn(p) ==
    /\ pc[p] = "f_return"
    /\ LET c == call[p] IN
       IF c.direct
       THEN Finish(p, [k \in 1..Len(c.merged) |-> Fragment(c.merged[k])])
       ELSE Finish(p, FetchAllFragments(c))
    /\ UNCHANGED <<cwd, dirs, files, audit, clock, cw, al, ret, ncalls, wrote,
                   log>>

FetchStep(p) ==
    \/ FetchPartition(p)
    \/ FetchBatch(p)
    \/ FetchMerge(p)
    \/ FetchWrite(p)
    \/ FetchAudit(p)
    \/ FetchReturn(p)

(***************************************************************************)
(* cite (cite.py:31-153).  A CSL-JSON item is held as the PMID it carries. *)
(***************************************************************************)
(* cite.py:118: json.dumps(item, ensure_ascii=False) *)
CiteDumps(item) == JsonObject(<< <<<<Ch.P>>, JsonStr(item)>> >>)

NotItem == <<-4>>

(* cite.py:77: json.loads(cached) *)
CiteLoads(text) ==
    LET hits == {item \in PMIDS : CiteDumps(item) = text}
    IN IF hits = {} THEN NotItem ELSE CHOOSE item \in hits : TRUE

CiteInputs == {<<>>, <<P10, P20>>, <<P10, P10>>}

(* cite.py:31-40: a call of cite; `failed` counts the batches whose        *)
(* request failed (cite.py:120-126)                                        *)
CiteCallOf(p, inputs, sizes, choices, refreshes) ==
    /\ pc[p] = "idle"
    /\ Turn(p)
    /\ TotalCalls < MaxCalls
    /\ \E pmids \in inputs, batch_size \in sizes,
          d \in choices, refresh \in refreshes :
          call' = [call EXCEPT ![p] =
                      [op |-> "cite", input |-> pmids, unique_pmids |-> <<>>,
                       batch_size |-> batch_size,
                       rate_limit_delay |-> RATE_LIMIT_DELAY,
                       cache_dir |-> d.cache_dir, pm_dir |-> d.pm_dir,
                       refresh |-> refresh,
                       cached_results |-> <<>>, uncached_pmids |-> <<>>,
                       i |-> 0, sleeps |-> 0, requests |-> <<>>,
                       failed |-> 0,
                       items |-> <<>>, flat_results |-> <<>>,
                       fetched_results |-> <<>>]]
    /\ ncalls' = [ncalls EXCEPT ![p] = @ + 1]
    /\ pc' = [pc EXCEPT ![p] = "c_partition"]
    /\ UNCHANGED <<cwd, dirs, files, audit, clock, cw, al, ret, last, wrote, log>>

CiteCallWith(p, inputs, choices) ==
    CiteCallOf(p, inputs, BatchSizes, choices, BOOLEAN)

CiteCall(p) == CiteCallWith(p, CiteInputs, DirChoices)

(* cite.py:57-80 *)
CitePartition(p) ==
    /\ pc[p] = "c_partition"
    /\ LET c == call[p]
           unique_pmids == DedupKeepFirst(c.input)
           read(x) == cache_read(files, c.cache_dir, "cite", <<x, ".json">>)
           lookup == CacheLookup(c.cache_dir, c.refresh)
           hits == IF lookup THEN {x \in Range(unique_pmids) : read(x) # Miss}
                   ELSE {}
       IN IF c.input = <<>>
          THEN Finish(p, <<>>)
          ELSE IF \E x \in hits : read(x) = DecodeError
          THEN Raise(p, "UnicodeDecodeError")
          ELSE /\ call' = [call EXCEPT ![p] =
                  [c EXCEPT !.unique_pmids = unique_pmids,
                            !.cached_results =
                                [x \in hits |-> CiteLoads(read(x))],
                            !.uncached_pmids =
                                SelectSeq(unique_pmids,
                                          LAMBDA x : x \notin hits)]]
               /\ pc' = [pc EXCEPT ![p] =
                            IF \A x \in Range(unique_pmids) : x \in hits
                            THEN "c_audit" ELSE "c_batch"]
               /\ UNCHANGED last
    /\ UNCHANGED <<cwd, dirs, files, audit, clock, cw, al, ret, ncalls, wrote,
                   log>>

(* cite.py:87-105, 120-126: one request; a failed batch is skipped *)
CiteBatch(p) ==
    /\ pc[p] = "c_batch"
    /\ LET c == call[p]
           batch == Batch(c.uncached_pmids, c.i, c.batch_size)
           slept == IF c.i > 0 /\ c.rate_limit_delay > 0
                    THEN c.sleeps + 1 ELSE c.sleeps
           more == c.i + c.batch_size < Len(c.uncached_pmids)
       IN \/ /\ call' = [call EXCEPT ![p] =
                   [c EXCEPT !.sleeps = slept,
                             !.requests = Append(@, batch),
                             !.failed = @ + 1,
                             !.i = @ + c.batch_size]]
             /\ pc' = [pc EXCEPT ![p] =
                          IF more THEN "c_batch" ELSE "c_audit"]
          \/ \E response \in SeqsNoDup(Range(batch)) :
                /\ call' = [call EXCEPT ![p] =
                      [c EXCEPT !.sleeps = slept,
                                !.requests = Append(@, batch),
                                !.items = response,
                                !.i = @ + c.batch_size]]
                /\ pc' = [pc EXCEPT ![p] = "c_item"]
    /\ UNCHANGED <<cwd, dirs, files, audit, clock, cw, al, ret, ncalls, last,
                   wrote, log>>

(* cite.py:106-119: one item of the response *)
CiteItem(p) ==
    /\ pc[p] = "c_item"
    /\ LET c == call[p] IN
       IF c.items = <<>>
       THEN /\ pc' = [pc EXCEPT ![p] =
                         IF c.i < Len(c.uncached_pmids)
                         THEN "c_batch" ELSE "c_audit"]
            /\ UNCHANGED <<call, cw, ret>>
       ELSE LET item == Head(c.items) IN
            /\ call' = [call EXCEPT ![p] =
                  [c EXCEPT !.items = Tail(@),
                            !.flat_results = Append(@, item),
                            !.fetched_results =
                                DedupKeepFirst(Append(@, item))]]
            /\ IF c.cache_dir # NoRoot
               THEN CallCacheWrite(p, c.cache_dir, "cite",
                       <<item, ".json">>, CiteDumps(item), "c_item")
               ELSE UNCHANGED <<pc, cw, ret>>
    /\ UNCHANGED <<cwd, dirs, files, audit, clock, al, ncalls, last, wrote, log>>

(* cite.py:128-139 *)
CiteAudit(p) ==
    /\ pc[p] = "c_audit"
    /\ LET c == call[p] IN
       IF c.pm_dir # NoRoot
       THEN CallAuditLog(p, c.pm_dir,
               [op |-> "cite", requested |-> Len(c.unique_pmids),
                cached |-> Cardinality(DOMAIN c.cached_results),
                fetched |-> Len(c.fetched_results),
                refreshed |-> c.refresh],
               "c_return")
       ELSE /\ pc' = [pc EXCEPT ![p] = "c_return"]
            /\ UNCHANGED <<al, ret>>
    /\ UNCHANGED <<cwd, dirs, files, audit, clock, call, cw, ncalls, last, wrote,
                   log>>

(* cite.py:146-151 *)
CiteResults(c) ==
    LET have == SelectSeq(c.unique_pmids,
                    LAMBDA x : \/ x \in DOMAIN c.cached_results
                               \/ x \in Range(c.fetched_results))
    IN [k \in 1..Len(have) |->
           IF have[k] \in DOMAIN c.cached_results
           THEN c.cached_results[have[k]]
           ELSE have[k]]

(* cite.py:141-153 *)
CiteReturn(p) ==
    /\ pc[p] = "c_return"
    /\ LET c == call[p] IN
       IF DOMAIN c.cached_results = {}
       THEN Finish(p, c.flat_results)
       ELSE Finish(p, CiteResults(c))
    /\ UNCHANGED <<cwd, dirs, files, audit, clock, cw, al, ret, ncalls, wrote,
                   log>>

CiteStep(p) ==
    \/ CitePartition(p)
    \/ CiteBatch(p)
    \/ CiteItem(p)
    \/ CiteAudit(p)
    \/ CiteReturn(p)

MAX_RETRIES == 3

RETRYABLE_STATUS_CODES == {503, 429}

(* download.py:33 *)
MAX_PDF_MEMBER_SIZE == 200 * 1024 * 1024

(* the statuses a server answers in the model *)
Statuses == {200, 226, 404, 429, 503}

(* client.get raised httpx.HTTPError instead of answering *)
HttpError == 0

(* download.py:327-331: the number of requests made when the k-th request  *)
(* is answered responses[k] *)
RECURSIVE Attempts(_, _)
Attempts(responses, attempt) ==
    IF responses[attempt] \notin RETRYABLE_STATUS_CODES
       \/ attempt = MAX_RETRIES
    THEN attempt
    ELSE Attempts(responses, attempt + 1)

(* a loop that asks again after any answer that is not a success *)
RetryUnlessOk(status) == status \notin {200, 226}

(* download.py:329: the answer makes the loop go on *)
Retryable(status) == status \in RETRYABLE_STATUS_CODES

(***************************************************************************)
(* _extract_pdf_from_tgz (download.py:121-160).  A response body is a      *)
(* record of what its bytes are and, for a tar archive, of its members; a  *)
(* member is a record of its name, its type, the size in its header and    *)
(* the number of bytes extractfile(member).read() gives.                   *)
(***************************************************************************)
(* str.lower() on the letters of the model *)
Lower(c) == IF c >= 65 /\ c <= 90 THEN c + 32 ELSE c

LowerText(t) == [i \in 1..Len(t) |-> Lower(t[i])]

(* t.endswith(s) *)
EndsWith(t, s) == StartsAt(t, Len(t) - Len(s) + 1, s)

(* s in t *)
Contains(t, s) == \E i \in 1..(Len(t) + 1) : StartsAt(t, i, s)

DotPdf == <<Ch.DOT, Ch.P, Ch.D, Ch.F>>

(* None *)
NoPdf == [raised |-> "no"]

(* EOFError, which `except (tarfile.TarError, OSError)` does not catch:   *)
(* gzip raises it when the compressed stream ends before its end marker.   *)
EofError == [raised |-> "EOFError"]

(* max(members, key=lambda m: m.size): the first of the largest *)
RECURSIVE MaxBySize(_)
MaxBySize(members) ==
    IF Len(members) = 1 THEN members[1]
    ELSE LET rest == MaxBySize(Tail(members)) IN
         IF rest.size > Head(members).size THEN rest ELSE Head(members)

(* an extraction that takes the largest PDF whatever the hint *)
ExtractLargest(content, pmcid) ==
    IF content.kind = "truncated" THEN EofError
    ELSE IF content.kind # "tgz" THEN NoPdf
    ELSE LET pdf_members ==
                 SelectSeq(content.members,
                           LAMBDA m : /\ EndsWith(LowerText(m.name), DotPdf)
                                      /\ m.isfile
                                      /\ 0 < m.size
                                      /\ m.size <= MAX_PDF_MEMBER_SIZE)
         IN IF pdf_members = <<>> THEN NoPdf
            ELSE IF MaxBySize(pdf_members).data = 0 THEN NoPdf
            ELSE MaxBySize(pdf_members)

(* download.py:121-160 *)
_extract_pdf_from_tgz(content, pmcid) ==
    IF content.kind = "truncated" THEN EofError
    ELSE IF content.kind # "tgz" THEN NoPdf
    ELSE LET pdf_members ==
                 SelectSeq(content.members,
                           LAMBDA m : /\ EndsWith(LowerText(m.name), DotPdf)
                                      /\ m.isfile
                                      /\ 0 < m.size
                                      /\ m.size <= MAX_PDF_MEMBER_SIZE)
             matching ==
                 SelectSeq(pdf_members,
                           LAMBDA m : Contains(LowerText(m.name),
                                               LowerText(pmcid)))
             chosen == IF pmcid # <<>> /\ matching # <<>>
                       THEN matching ELSE pdf_members
         IN IF pdf_members = <<>> THEN NoPdf
            ELSE IF MaxBySize(chosen).data = 0 THEN NoPdf
            ELSE MaxBySize(chosen)

(* "PMC1" and the member names of the model: p1.pdf, a.PDF, a.pdf, P1.n *)
Pmc1 == <<Ch.UP, Ch.ONE>>

NameP1Pdf == <<Ch.P, Ch.ONE>> \o DotPdf

NameAUpperPdf == <<Ch.A, Ch.DOT, Ch.UP, Ch.UD, Ch.UF>>

NameAPdf == <<Ch.A>> \o DotPdf

NameP1Nxml == <<Ch.UP, Ch.ONE, Ch.DOT, Ch.N>>

File(name, size) ==
    [name |-> name, isfile |-> TRUE, size |-> size, data |-> size]

EmptyContent == [kind |-> "empty", members |-> <<>>]

PdfContent == [kind |-> "pdf", members |-> <<>>]

(* the archives a server can answer with: tests/test_download.py:119-196,  *)
(* and an archive cut short in transfer *)
Archives ==
    {<<>>,
     <<File(NameAUpperPdf, 2), File(NameP1Pdf, 1)>>,
     <<File(NameAPdf, 1), File(NameAUpperPdf, 2)>>,
     <<File(NameP1Nxml, 2)>>,
     <<[File(NameP1Pdf, 1) EXCEPT !.isfile = FALSE]>>,
     <<File(NameP1Pdf, MAX_PDF_MEMBER_SIZE + 1), File(NameAPdf, 1)>>,
     <<File(NameP1Pdf, 0), File(NameP1Nxml, 1)>>,
     <<[File(NameP1Pdf, 2) EXCEPT !.data = 0]>>}

TgzContents ==
    {EmptyContent,
     [kind |-> "html", members |-> <<>>],
     [kind |-> "truncated", members |-> <<File(NameP1Pdf, 1)>>]}
    \cup {[kind |-> "tgz", members |-> ms] : ms \in Archives}

(* what the server can send for a source *)
ContentsFor(source) ==
    IF source.pmc_format = "tgz" THEN TgzContents
    ELSE {EmptyContent, PdfContent}

(***************************************************************************)
(* download_pdfs (download.py:273-408).  The output directory is held in   *)
(* the call, as the set of PMIDs that have a PDF in it.                    *)
(***************************************************************************)
(* a source record: its PMID, whether it has a url, its format and PMCID *)
Source(pmid, url, pmc_format, pmcid) ==
    [pmid |-> pmid, url |-> url, pmc_format |-> pmc_format, pmcid |-> pmcid]

DownloadInputs ==
    {<<>>,
     <<Source(P10, TRUE, "pdf", <<>>), Source(P10, TRUE, "pdf", <<>>)>>,
     <<Source(P20, FALSE, "pdf", <<>>), Source(P10, TRUE, "pdf", <<>>)>>}

ZeroCounts == [downloaded |-> 0, skipped |-> 0, failed |-> 0]

NoContent == [kind |-> "none", members |-> <<>>]

(* how download_pdfs is reached: called as a function ("api"), or from    *)
(* main with arguments that are wrong ("bad_option"), with no input       *)
(* ("no_input"), with --dry-run ("dry_run") or to download ("run")         *)
MainModes == {"bad_option", "no_input", "dry_run", "run"}

(* download.py:273-281, or main (download.py:446-459) *)
DownloadCallWith(p, inputs, existings, modes) ==
    /\ pc[p] = "idle"
    /\ Turn(p)
    /\ TotalCalls < MaxCalls
    /\ \E sources \in inputs, existing \in existings, main \in modes,
          overwrite \in BOOLEAN, pm_dir \in {Root, NoRoot} :
          call' = [call EXCEPT ![p] =
                      [op |-> "download", sources |-> sources,
                       output_dir |-> existing, overwrite |-> overwrite,
                       pm_dir |-> pm_dir, idx |-> 1, result |-> ZeroCounts,
                       attempts |-> <<>>, progress |-> <<>>,
                       attempt |-> 0, answers |-> <<>>,
                       content |-> NoContent,
                       main |-> main]]
    /\ ncalls' = [ncalls EXCEPT ![p] = @ + 1]
    /\ pc' = [pc EXCEPT ![p] = "d_start"]
    /\ UNCHANGED <<cwd, dirs, files, audit, clock, cw, al, ret, last, wrote, log>>

DownloadCall(p) ==
    DownloadCallWith(p, DownloadInputs, SUBSET {P10}, {"api"})

(* the sources that have a url (download.py:544) *)
Available_(sources) == SelectSeq(sources, LAMBDA s : s.url)

(* download.py:460-546: main before it calls download_pdfs *)
MainExit(c) ==
    IF c.main \in {"bad_option", "no_input"} THEN 1
    ELSE IF Available_(c.sources) # <<>> THEN 0
    ELSE 2

(* main up to its call of download_pdfs (download.py:460-568), then       *)
(* download.py:295-302                                                     *)
DownloadStart(p) ==
    /\ pc[p] = "d_start"
    /\ LET c == call[p] IN
       IF c.main \in {"bad_option", "no_input", "dry_run"}
       THEN /\ Finish(p, MainExit(c))
            /\ UNCHANGED <<al, ret>>
       ELSE IF c.sources # <<>>
       THEN /\ pc' = [pc EXCEPT ![p] = "d_source"]
            /\ UNCHANGED <<al, ret, call, last>>
       ELSE IF c.pm_dir # NoRoot
       THEN /\ CallAuditLog(p, c.pm_dir,
                  [op |-> "download"] @@ c.result @@ [total |-> 0],
                  "d_return")
            /\ UNCHANGED <<call, last>>
       ELSE /\ pc' = [pc EXCEPT ![p] = "d_return"]
            /\ UNCHANGED <<al, ret, call, last>>
    /\ UNCHANGED <<cwd, dirs, files, audit, clock, cw, ncalls, wrote, log>>

(* the source at idx is counted under `status`, after `n` requests *)
DownloadRecord(p, status, n) ==
    LET c == call[p]
        source == c.sources[c.idx]
    IN call' = [call EXCEPT ![p] =
          [c EXCEPT !.idx = @ + 1,
                    !.result[status] = @ + 1,
                    !.attempts = Append(@, n),
                    !.progress = Append(@, <<source.pmid, status>>),
                    !.attempt = 0,
                    !.answers = <<>>,
                    !.content = NoContent,
                    !.output_dir = IF status = "downloaded"
                                   THEN @ \cup {source.pmid} ELSE @]]

(* download.py:306-323: the next source, up to its first request *)
DownloadSource(p) ==
    /\ pc[p] = "d_source"
    /\ LET c == call[p] IN
       IF c.idx > Len(c.sources)
       THEN /\ pc' = [pc EXCEPT ![p] = "d_audit"]
            /\ UNCHANGED call
       ELSE LET source == c.sources[c.idx] IN
            IF ~source.url
            THEN /\ DownloadRecord(p, "failed", 0)
                 /\ UNCHANGED pc
            ELSE IF source.pmid \in c.output_dir /\ ~c.overwrite
            THEN /\ DownloadRecord(p, "skipped", 0)
                 /\ UNCHANGED pc
            ELSE /\ pc' = [pc EXCEPT ![p] = "d_get"]
                 /\ UNCHANGED call
    /\ UNCHANGED <<cwd, dirs, files, audit, clock, cw, al, ret, ncalls, last,
                   wrote, log>>

(* download.py:327-331: one turn of `for attempt in range(MAX_RETRIES)`;  *)
(* client.get raises httpx.HTTPError, caught at download.py:383, or        *)
(* answers a status and a body.                                            *)
DownloadGet(p) ==
    /\ pc[p] = "d_get"
    /\ LET c == call[p] IN
       \/ /\ call' = [call EXCEPT ![p].answers = Append(@, HttpError)]
          /\ pc' = [pc EXCEPT ![p] = "d_respond"]
       \/ \E status \in Statuses, content \in ContentsFor(c.sources[c.idx]) :
             /\ status \notin {200, 226} => content = EmptyContent
             /\ IF Retryable(status) /\ c.attempt + 1 < MAX_RETRIES
                THEN /\ call' = [call EXCEPT ![p].answers = Append(@, status),
                                             ![p].attempt = @ + 1]
                     /\ UNCHANGED pc
                ELSE /\ call' = [call EXCEPT ![p].answers = Append(@, status),
                                             ![p].content = content]
                     /\ pc' = [pc EXCEPT ![p] = "d_respond"]
    /\ UNCHANGED <<cwd, dirs, files, audit, clock, cw, al, ret, ncalls, last,
                   wrote, log>>

(* download.py:333-395: the answer is looked at, the archive unpacked, the *)
(* file written (write_bytes can raise OSError, caught at download.py:383) *)
DownloadRespond(p) ==
    /\ pc[p] = "d_respond"
    /\ LET c == call[p]
           source == c.sources[c.idx]
           n == Len(c.answers)
           pdf_content == _extract_pdf_from_tgz(c.content, source.pmcid)
       IN IF c.answers[n] \notin {200, 226}
          THEN /\ DownloadRecord(p, "failed", n)
               /\ pc' = [pc EXCEPT ![p] = "d_source"]
               /\ UNCHANGED last
          ELSE IF c.content = EmptyContent
          THEN /\ DownloadRecord(p, "failed", n)
               /\ pc' = [pc EXCEPT ![p] = "d_source"]
               /\ UNCHANGED last
          ELSE IF source.pmc_format = "tgz" /\ pdf_content = EofError
          THEN Raise(p, "EOFError")
          ELSE IF source.pmc_format = "tgz" /\ pdf_content = NoPdf
          THEN /\ DownloadRecord(p, "failed", n)
               /\ pc' = [pc EXCEPT ![p] = "d_source"]
               /\ UNCHANGED last
          ELSE /\ \/ DownloadRecord(p, "downloaded", n)
                  \/ DownloadRecord(p, "failed", n)
               /\ pc' = [pc EXCEPT ![p] = "d_source"]
               /\ UNCHANGED last
    /\ UNCHANGED <<cwd, dirs, files, audit, clock, cw, al, ret, ncalls, wrote,
                   log>>

(* download.py:397-406 *)
DownloadAudit(p) ==
    /\ pc[p] = "d_audit"
    /\ LET c == call[p] IN
       IF c.pm_dir # NoRoot
       THEN CallAuditLog(p, c.pm_dir,
               [op |-> "download", total |-> Len(c.sources)] @@ c.result,
               "d_return")
       ELSE /\ pc' = [pc EXCEPT ![p] = "d_return"]
            /\ UNCHANGED <<al, ret>>
    /\ UNCHANGED <<cwd, dirs, files, audit, clock, call, cw, ncalls, last, wrote,
                   log>>

(* a main that exits with 1 when a source failed *)
ExitOneOnFailure(result) ==
    IF result.downloaded = 0 /\ result.skipped = 0 THEN 2
    ELSE IF result.failed > 0 THEN 1
    ELSE 0

(* download.py:580-582 *)
ExitCode(result) ==
    IF result.downloaded = 0 /\ result.skipped = 0 THEN 2 ELSE 0

(* download.py:302, download.py:408; under main, download.py:568-582 *)
DownloadReturn(p) ==
    /\ pc[p] = "d_return"
    /\ IF call[p].main = "run"
       THEN Finish(p, ExitCode(call[p].result))
       ELSE Finish(p, call[p].result)
    /\ UNCHANGED <<cwd, dirs, files, audit, clock, cw, al, ret, ncalls, wrote,
                   log>>

DownloadStep(p) ==
    \/ DownloadStart(p)
    \/ DownloadSource(p)
    \/ DownloadGet(p)
    \/ DownloadRespond(p)
    \/ DownloadAudit(p)
    \/ DownloadReturn(p)

(***************************************************************************)
(* filter_articles_audited (filter.py:97-251).  An article is a record of  *)
(* its PMID and its abstract.                                              *)
(***************************************************************************)
(* filter.py:79-82 *)
_has_abstract(article) == article.abstract # <<>>

NoFilter == <<-5>>

(* filter.py:97-159, for the criteria pmid and has_abstract *)
filter_articles(articles, pmid, has_abstract) ==
    SelectSeq(articles,
        LAMBDA a : /\ pmid # NoFilter => a.pmid = Strip(pmid)
                   /\ has_abstract => _has_abstract(a))

FilterInputs ==
    {<<>>,
     <<[pmid |-> P10, abstract |-> <<Ch.A>>]>>,
     <<[pmid |-> P10, abstract |-> <<>>], [pmid |-> P20, abstract |-> <<Ch.A>>]>>}

FilterCall(p) ==
    /\ pc[p] = "idle"
    /\ Turn(p)
    /\ TotalCalls < MaxCalls
    /\ \E articles \in FilterInputs, pmid \in {NoFilter, P10},
          has_abstract \in BOOLEAN, pm_dir \in {Root, NoRoot} :
          call' = [call EXCEPT ![p] =
                      [op |-> "filter", articles |-> articles, pmid |-> pmid,
                       has_abstract |-> has_abstract, pm_dir |-> pm_dir,
                       result |-> <<>>]]
    /\ ncalls' = [ncalls EXCEPT ![p] = @ + 1]
    /\ pc' = [pc EXCEPT ![p] = "fa_filter"]
    /\ UNCHANGED <<cwd, dirs, files, audit, clock, cw, al, ret, last, wrote, log>>

(* filter.py:199-249 *)
FilterRun(p) ==
    /\ pc[p] = "fa_filter"
    /\ LET c == call[p]
           result == filter_articles(c.articles, c.pmid, c.has_abstract)
           criteria == (IF c.pmid # NoFilter THEN [pmid |-> c.pmid]
                        ELSE <<>>)
                       @@ (IF c.has_abstract THEN [has_abstract |-> TRUE]
                           ELSE <<>>)
       IN /\ call' = [call EXCEPT ![p].result = result]
          /\ IF c.pm_dir # NoRoot
             THEN CallAuditLog(p, c.pm_dir,
                     [op |-> "filter", input |-> Len(c.articles),
                      output |-> Len(result),
                      excluded |-> Len(c.articles) - Len(result),
                      criteria |-> criteria],
                     "fa_return")
             ELSE /\ pc' = [pc EXCEPT ![p] = "fa_return"]
                  /\ UNCHANGED <<al, ret>>
    /\ UNCHANGED <<cwd, dirs, files, audit, clock, cw, ncalls, last, wrote, log>>

(* filter.py:251 *)
FilterReturn(p) ==
    /\ pc[p] = "fa_return"
    /\ Finish(p, call[p].result)
    /\ UNCHANGED <<cwd, dirs, files, audit, clock, cw, al, ret, ncalls, wrote,
                   log>>

FilterStep(p) ==
    \/ FilterRun(p)
    \/ FilterReturn(p)

(***************************************************************************)
(* The operations, called by the processes that share one root.            *)
(***************************************************************************)
NextOps ==
    \E p \in Procs :
          \/ SearchCall(p)
          \/ SearchStep(p)
          \/ FetchCall(p)
          \/ FetchStep(p)
          \/ CiteCall(p)
          \/ CiteStep(p)
          \/ DownloadCall(p)
          \/ DownloadStep(p)
          \/ FilterCall(p)
          \/ FilterStep(p)
          \/ CacheWriteStep(p)
          \/ AuditLogStep(p)
          \/ Crash(p)

SpecOps == Init /\ [][NextOps]_vars

(***************************************************************************)
(* Properties of the operations, checked under SpecOps.                    *)
(***************************************************************************)
OpNames == {"search", "fetch", "cite", "download", "filter"}

(* C7: a cache entry written by a call of search, fetch or cite never     *)
(* exists while the audit event of that call is missing.                   *)
C7_AuditNoLaterThanCache ==
    \A path \in DOMAIN wrote : wrote[path].id \in LogIds

(* C9: every call of search, fetch, cite, download_pdfs or                *)
(* filter_articles_audited that is given a root and returns has appended  *)
(* exactly one event to audit.jsonl.                                       *)
C9_OneEventPerCall ==
    \A p \in Procs :
        ( /\ last[p].op \in OpNames
          /\ last[p].status = "returned"
          /\ last[p].call.pm_dir = Root )
        => Cardinality({i \in 1..Len(log) : log[i].id = last[p].id}) = 1

(***************************************************************************)
(* fetch and cite called one after the other on one root, with lists that  *)
(* repeat an identifier and lists of which an earlier call has cached a    *)
(* part (tests/test_fetch.py:361-412, tests/test_cite.py:179-229).         *)
(***************************************************************************)
BatchInputs == {<<P20>>, <<P10, P20, P30>>, <<P20, P10, P20>>}

(* cache_dir and pm_dir are separate arguments (fetch.py:101-102,          *)
(* cite.py:37-38): both, none, or the audit log alone.                     *)
BatchDirChoices ==
    DirChoices \cup {[cache_dir |-> NoRoot, pm_dir |-> Root]}

(* The entries of search, fetch and cite are files of different           *)
(* directories: a session calls one of the operations.                     *)
SessionOf(op) == \A q \in Procs : last[q].op \in {"none", op}

FetchCallBatch(p) ==
    /\ SessionOf("fetch")
    /\ FetchCallWith(p, BatchInputs, BatchDirChoices)

CiteCallBatch(p) ==
    /\ SessionOf("cite")
    /\ CiteCallWith(p, BatchInputs, BatchDirChoices)

SearchCallBatch(p) ==
    /\ SessionOf("search")
    /\ SearchCallWith(p, Queries, DirChoices)

NextBatch ==
    \E p \in Procs :
          \/ SearchCallBatch(p)
          \/ SearchStep(p)
          \/ FetchCallBatch(p)
          \/ FetchStep(p)
          \/ CiteCallBatch(p)
          \/ CiteStep(p)
          \/ CacheWriteStep(p)
          \/ AuditLogStep(p)

SpecBatch == Init /\ [][NextBatch]_vars

(***************************************************************************)
(* What a call of fetch or cite was asked, what it found in the cache and  *)
(* what the network gave it, read off the state at its return statement.   *)
(***************************************************************************)
Returning(p) == pc[p] \in {"f_return", "c_return"}

(* the call of p returns in this step *)
Returns(p) == Returning(p) /\ pc'[p] = "idle"

(* the identifiers asked for, blank ones left out *)
NonBlank(input) == SelectSeq(input, LAMBDA x : Strip(x) # <<>>)

EntryKey(c, x) == <<x, IF c.op = "fetch" THEN ".xml" ELSE ".json">>

(* the entries this call has renamed into place *)
WrittenBy(p) ==
    {path \in DOMAIN wrote : wrote[path].id = CallId(p)}

(* x had a valid entry when the call of p started *)
HadEntry(p, x) ==
    LET c == call[p] IN
    /\ cache_read(files, c.cache_dir, c.op, EntryKey(c, x))
           \notin {Miss, DecodeError}
    /\ Path(c.op, EntryKey(c, x)) \notin WrittenBy(p)

(* the identifiers served from the cache *)
Served(p) ==
    IF call[p].refresh THEN {}
    ELSE {x \in Range(NonBlank(call[p].input)) : HadEntry(p, x)}

(* the identifiers sent to the network, in the order sent *)
Asked(c) == Flatten(c.requests)

(* the identifiers the network has resolved *)
Resolved(c) ==
    IF c.op = "fetch" THEN Range(Flatten(c.responses))
    ELSE Range(c.flat_results)

(* the value that holds the items of ids: fragments for fetch, citations  *)
(* for cite *)
ItemsOf(c, ids) ==
    IF c.op = "fetch" THEN [k \in 1..Len(ids) |-> Fragment(ids[k])]
    ELSE ids

(* the identifiers of ids that the call has an item for *)
Available(p, ids) ==
    SelectSeq(ids, LAMBDA x : x \in Served(p) \cup Resolved(call[p]))

(* the audit event of the call of p *)
EventOf(p) ==
    log[CHOOSE i \in 1..Len(log) : log[i].id = CallId(p)].event

HasDuplicate(seq) == Len(DedupKeepFirst(seq)) < Len(seq)

(* the value p returns holds the available items in the order of the      *)
(* identifiers asked for, whether or not a repeated identifier is repeated *)
ReturnsInRequestedOrder(p) ==
    LET asked == NonBlank(call[p].input) IN
    last'[p].value \in
        {ItemsOf(call[p], Available(p, asked)),
         ItemsOf(call[p], Available(p, DedupKeepFirst(asked)))}

(* C13: a cite call whose list repeats an identifier sends each distinct   *)
(* identifier to the network at most once, returns exactly one citation    *)
(* per distinct resolved identifier in first-occurrence order, and logs    *)
(* the number of distinct identifiers as requested.                        *)
C13_CiteDedup ==
    [][\A p \in Procs :
          ( /\ Returns(p)
            /\ call[p].op = "cite"
            /\ HasDuplicate(call[p].input) )
             => /\ \A x \in PMIDS : Count(Asked(call[p]), x) <= 1
                /\ last'[p].value =
                       Available(p, DedupKeepFirst(call[p].input))
                /\ call[p].pm_dir = Root =>
                       EventOf(p).requested =
                           Len(DedupKeepFirst(call[p].input))]_vars

(* C14: a fetch call whose list repeats an identifier requests each        *)
(* distinct identifier from the network at most once, returns it at most   *)
(* once, and logs the number of distinct identifiers as requested.         *)
C14_FetchDedup ==
    [][\A p \in Procs :
          ( /\ Returns(p)
            /\ call[p].op = "fetch"
            /\ HasDuplicate(call[p].input) )
             => /\ \A x \in PMIDS : Count(Asked(call[p]), x) <= 1
                /\ \A x \in PMIDS : Count(last'[p].value, Fragment(x)) <= 1
                /\ call[p].pm_dir = Root =>
                       EventOf(p).requested =
                           Len(DedupKeepFirst(NonBlank(call[p].input)))]_vars

(* some identifiers are served from the cache and others are fetched *)
PartialHit(p) == Served(p) # {} /\ call[p].requests # <<>>

(* C15: when some identifiers are served from the cache and the others    *)
(* are fetched, fetch and cite return the items in the order of the        *)
(* requested identifiers, whatever order the network answered in.          *)
C15_OrderUnderPartialHit ==
    [][\A p \in Procs :
          (Returns(p) /\ PartialHit(p)) => ReturnsInRequestedOrder(p)]_vars

(* C15 witness: fetch of 10, 20, 30 with 20 cached reaches its return     *)
(* after the network answered 30 before 10, and a cite call has done the   *)
(* same.                                                                   *)
C15_Witness ==
    \E p \in Procs :
        /\ Returning(p)
        /\ call[p].op = "fetch"
        /\ call[p].input = <<P10, P20, P30>>
        /\ Served(p) = {P20}
        /\ Flatten(call[p].responses) = <<P30, P10>>
        /\ FetchAllFragments(call[p])
               = <<Fragment(P10), Fragment(P20), Fragment(P30)>>

(* C16: in every fetch or cite call the returned items are in the order   *)
(* of the requested identifiers, not in the order of the network answers.  *)
C16_OrderAlways ==
    [][\A p \in Procs : Returns(p) => ReturnsInRequestedOrder(p)]_vars

(* the call of p asked the network for exactly the identifiers of keys,   *)
(* with a sleep before every request but the first                         *)
AskedExactly(p, keys) ==
    /\ Range(Asked(call[p])) = keys
    /\ call[p].sleeps = (IF call[p].requests = <<>> THEN 0
                         ELSE Len(call[p].requests) - 1)

(* C17: without refresh, search, fetch and cite send to the network        *)
(* exactly the requested keys that have no valid cache entry; when every   *)
(* key has one, the call makes no request and no rate-limit sleep.         *)
C17_HitsSkipNetwork ==
    /\ [](\A p \in Procs :
             (call[p].op \in {"fetch", "cite"} /\ ~call[p].refresh)
                => /\ Range(Asked(call[p]))
                       \subseteq Range(NonBlank(call[p].input)) \ Served(p)
                   /\ Returning(p) =>
                         AskedExactly(p, Range(NonBlank(call[p].input))
                                             \ Served(p)))
    /\ [][\A p \in Procs :
             ( /\ pc[p] = "s_check"
               /\ ~call[p].refresh
               /\ Strip(call[p].query) # <<>> )
                => ( pc'[p] = "s_net" <=>
                       cache_read(files, call[p].cache_dir, "search",
                                  _cache_key(call[p].query,
                                             call[p].max_results)) = Miss )]_vars

(* C17 witness: a cite call without refresh finds every identifier of its *)
(* list in the cache and reaches its return without a request.             *)
C17_Witness ==
    \E p \in Procs :
        /\ Returning(p)
        /\ call[p].op = "cite"
        /\ ~call[p].refresh
        /\ call[p].input = <<P10, P20, P30>>
        /\ Served(p) = {P10, P20, P30}
        /\ call[p].requests = <<>>
        /\ call[p].sleeps = 0

(* the entry of x holds the item this call obtained for it *)
EntryRefreshed(p, x) ==
    LET c == call[p] IN
    cache_read(files, c.cache_dir, c.op, EntryKey(c, x))
        = (IF c.op = "fetch" THEN Fragment(x) ELSE CiteDumps(x))

(* C18: with refresh, search, fetch and cite read no cache entry, request *)
(* every key from the network, overwrite the entry of each key that        *)
(* resolves and log no item as cached, so that a later call without        *)
(* refresh is served from the refreshed entries.                           *)
C18_RefreshOverwrites ==
    /\ [](\A p \in Procs :
             ( /\ Returning(p)
               /\ call[p].refresh
               /\ call[p].cache_dir = Root )
                => /\ Range(Asked(call[p])) = Range(NonBlank(call[p].input))
                   /\ \A x \in Resolved(call[p]) : EntryRefreshed(p, x)
                   /\ call[p].pm_dir = Root => EventOf(p).cached = 0)
    /\ [](\A p \in Procs :
             ( /\ pc[p] = "s_return"
               /\ call[p].refresh
               /\ call[p].cache_dir = Root )
                => SearchLoads(cache_read(files, Root, "search",
                                 _cache_key(call[p].query,
                                            call[p].max_results))).pmids
                       = call[p].pmids)

(* the identifiers of the entries this call has written *)
WrittenKeys(p) ==
    {x \in PMIDS : Path(call[p].op, EntryKey(call[p], x)) \in WrittenBy(p)}

(* the identifiers sent to the network that it did not resolve *)
Unresolved(p) == Range(Asked(call[p])) \ Resolved(call[p])

NoEntry(p, x) ==
    cache_read(files, call[p].cache_dir, call[p].op, EntryKey(call[p], x))
        = Miss

(* C19 as stated: after a fetch or cite call, entries have been written    *)
(* for exactly the identifiers the network resolved, and an identifier it  *)
(* did not resolve has no entry, so that a later call without refresh      *)
(* requests it again.                                                      *)
C19_UnresolvedRetried ==
    \A p \in Procs :
        (Returning(p) /\ call[p].cache_dir = Root)
           => /\ WrittenKeys(p) = Resolved(call[p])
              /\ \A x \in Unresolved(p) : NoEntry(p, x)

(* C19 amended: the call writes entries for exactly the identifiers the    *)
(* network resolved; an identifier it did not resolve gets no entry from   *)
(* the call, and has none at all unless the call was a refresh and an      *)
(* earlier call had left one.                                              *)
C19_OnlyResolvedCached ==
    \A p \in Procs :
        (Returning(p) /\ call[p].cache_dir = Root)
           => /\ WrittenKeys(p) = Resolved(call[p])
              /\ \A x \in Unresolved(p) :
                    \/ NoEntry(p, x)
                    \/ call[p].refresh /\ HadEntry(p, x)

(* C19 witness: a fetch of 10, 20, 30 reaches its return after the        *)
(* network resolved 10 alone: 10 has an entry, 30 has none.                *)
C19_Witness ==
    \E p \in Procs :
        /\ Returning(p)
        /\ call[p].op = "fetch"
        /\ call[p].cache_dir = Root
        /\ call[p].input = <<P10, P20, P30>>
        /\ Resolved(call[p]) = {P10}
        /\ P30 \in Unresolved(p)
        /\ WrittenKeys(p) = {P10}
        /\ NoEntry(p, P30)

(* C20: the audit event of a fetch or cite call reports as requested the   *)
(* number of identifiers after dedup, as cached the number served from     *)
(* the cache and as fetched the number obtained from the network.          *)
C20_AuditCounts ==
    \A p \in Procs :
        (Returning(p) /\ call[p].pm_dir = Root)
           => /\ EventOf(p).requested
                     = Len(DedupKeepFirst(NonBlank(call[p].input)))
              /\ EventOf(p).cached = Cardinality(Served(p))
              /\ EventOf(p).fetched = Cardinality(Resolved(call[p]))

(***************************************************************************)
(* Searches of one session on one cache root whose queries differ in       *)
(* whitespace, in another character or in the result limit                 *)
(* (tests/test_search.py:314-343: search(query, cache_dir=pm_dir)).        *)
(***************************************************************************)
KeyDirChoices == {[cache_dir |-> Root, pm_dir |-> NoRoot]}

SearchCallKey(p) ==
    SearchCallOf(p, KeyQueries, Limits, KeyDirChoices, {FALSE})

NextKey ==
    \E p \in Procs :
          \/ SearchCallKey(p)
          \/ SearchStep(p)
          \/ CacheWriteStep(p)

SpecKey == Init /\ [][NextKey]_vars

(* the envelope a search passed to cache_write *)
EnvelopeOf(data) == CHOOSE e \in Envelopes : EnvelopeTexts[e] = data

(* the entries of the search category a call has renamed into place *)
SearchEntries == {path \in DOMAIN wrote : path[1] = "search"}

(* the entry holds all the bytes its writer passed *)
Whole(path) ==
    path \in DOMAIN files /\ files[path] = Encode(wrote[path].data)

(* t without its leading and trailing whitespace, every run of repeated   *)
(* whitespace cut down to its first character                              *)
RECURSIVE SqueezeRuns(_)
SqueezeRuns(t) ==
    IF t = <<>> THEN <<>>
    ELSE IF IsSpace(Head(t)) THEN <<Head(t)>> \o SqueezeRuns(LStrip(t))
    ELSE <<Head(t)>> \o SqueezeRuns(Tail(t))

(* the texts differ only in leading, trailing or repeated whitespace *)
WhitespaceVariants(s, t) == SqueezeRuns(Strip(s)) = SqueezeRuns(Strip(t))

(* the length of the longest prefix of t without whitespace *)
RECURSIVE WordLen(_)
WordLen(t) ==
    IF t = <<>> \/ IsSpace(Head(t)) THEN 0 ELSE 1 + WordLen(Tail(t))

(* the words of t: its maximal runs of characters that are not whitespace *)
RECURSIVE Words(_)
Words(t) ==
    LET s == LStrip(t) IN
    IF s = <<>> THEN <<>>
    ELSE <<SubSeq(s, 1, WordLen(s))>>
             \o Words(SubSeq(s, WordLen(s) + 1, Len(s)))

(* the search in flight in p and the search q made before it have the     *)
(* same cache key                                                          *)
SameKey(p, q) == SearchPath(call[p]) = SearchPath(last[q].call)

(* q made a search before the one in flight in p *)
SearchAfter(p, q) == call[p].op = "search" /\ last[q].op = "search"

(* the search q made went to the network and its entry holds all the      *)
(* bytes of its envelope                                                   *)
LeftWholeEntry(q) ==
    /\ last[q].status = "returned"
    /\ SearchPath(last[q].call) \in SearchEntries
    /\ wrote[SearchPath(last[q].call)].id = last[q].id
    /\ Whole(SearchPath(last[q].call))

(* the search of p looks into the cache, finds the entry the search of q  *)
(* left and takes its PMIDs without a request                              *)
ServedFromEntryOf(p, q) ==
    ( /\ pc[p] = "s_check"
      /\ pc'[p] # pc[p]
      /\ CacheLookup(call[p].cache_dir, call[p].refresh)
      /\ LeftWholeEntry(q) )
    => /\ pc'[p] \in {"al_enter", "s_return"}
       /\ call'[p].pmids = last[q].value

SearchReturns(p) ==
    call[p].op = "search" /\ pc[p] = "s_return" /\ pc'[p] = "idle"

(* the search of p made no request: it has written no entry, and an       *)
(* earlier call has                                                        *)
ServedFromCache(p) ==
    /\ call[p].cache_dir = Root
    /\ ~call[p].refresh
    /\ SearchPath(call[p]) \in SearchEntries
    /\ wrote[SearchPath(call[p])].id # CallId(p)

(* the events the call of p has appended *)
EventsOf(p) == SelectSeq(log, LAMBDA e : e.id = CallId(p))

(* C22: a search served from cache returns the PMID list, in order, that  *)
(* the network search which wrote the entry returned; given the root, it  *)
(* appends one audit event, with cached=true and with original_ts the     *)
(* timestamp stored in the entry when it was written.                      *)
C22_CachedHit ==
    [][\A p \in Procs :
          (SearchReturns(p) /\ ServedFromCache(p)) =>
              LET w == EnvelopeOf(wrote[SearchPath(call[p])].data) IN
              /\ last'[p].status = "returned"
              /\ last'[p].value = w.pmids
              /\ call[p].pm_dir = Root =>
                    /\ Len(EventsOf(p)) = 1
                    /\ EventsOf(p)[1].event.cached
                    /\ EventsOf(p)[1].event.original_ts = w.timestamp
                    /\ EventsOf(p)[1].event.count = Len(w.pmids)
                    /\ \E k \in 1..Len(_read_events(audit)) :
                          _read_events(audit)[k]
                              = JsonDumps(EventsOf(p)[1].event)]_vars

(* a search given the root returns two PMIDs from an entry written at an  *)
(* earlier clock reading than its own event                                *)
C22_Witness ==
    \E p \in Procs :
        /\ pc[p] = "s_return"
        /\ call[p].op = "search"
        /\ ServedFromCache(p)
        /\ call[p].pm_dir = Root
        /\ call[p].pmids = <<P20, P10>>
        /\ Len(EventsOf(p)) = 1
        /\ EventsOf(p)[1].event.ts
               > EnvelopeOf(wrote[SearchPath(call[p])].data).timestamp

(***************************************************************************)
(* The timestamps of audit.jsonl, checked under Spec.  The clock is the    *)
(* system's UTC clock, taken as one that is never set back.                *)
(***************************************************************************)
(* the events process p has appended, in the order of the file *)
AppendedBy(p) == SelectSeq(log, LAMBDA e : e.id[1] = p)

TgzInputs ==
    {<<>>,
     <<Source(P10, TRUE, "tgz", Pmc1), Source(P20, TRUE, "pdf", <<>>)>>,
     <<Source(P20, FALSE, "pdf", <<>>), Source(P10, TRUE, "tgz", <<>>)>>}

DownloadCallTgz(p) ==
    DownloadCallWith(p, TgzInputs, {{}, {P20}}, MainModes \cup {"api"})

NextDownload ==
    \E p \in Procs :
          \/ DownloadCallTgz(p)
          \/ DownloadStep(p)
          \/ AuditLogStep(p)

SpecDownload == Init /\ [][NextDownload]_vars

(* p is inside download_pdfs *)
Downloading(p) == call[p].op = "download"

(* the source download_pdfs is working on *)
CurrentSource(p) == call[p].sources[call[p].idx]

(* the last answer to the requests made for the current source *)
LastAnswer(p) == call[p].answers[Len(call[p].answers)]

(* the status under which the source just dealt with was counted *)
Recorded(c) == c.progress[Len(c.progress)][2]

(* the step of p counts the current source *)
Records(p) == pc[p] = "d_respond" /\ pc'[p] = "d_source"

(* C24: for each source, download_pdfs asks again only after an answer    *)
(* with a retryable status (429 or 503) and makes at most 3 requests: any *)
(* other answer ends the requests at once; a source is recorded as        *)
(* downloaded only after a success, which after two retryable answers is  *)
(* the third request; retryable answers to all of 3 requests give a       *)
(* recorded failure; every request brings the loop closer to its end.      *)
C24_RetryBound ==
    /\ [](\A p \in Procs :
            Downloading(p) =>
                /\ Len(call[p].answers) <= MAX_RETRIES
                /\ \A i \in 1..(Len(call[p].answers) - 1) :
                      call[p].answers[i] \in RETRYABLE_STATUS_CODES)
    /\ [][\A p \in Procs :
            /\ pc[p] = "d_get" =>
                  /\ pc'[p] \in {"d_get", "d_respond"}
                  /\ Len(call'[p].answers) = Len(call[p].answers) + 1
                  /\ pc'[p] = "d_get" <=>
                        /\ LastAnswer(p)' \in RETRYABLE_STATUS_CODES
                        /\ Len(call'[p].answers) < MAX_RETRIES
            /\ Records(p) =>
                  /\ call'[p].attempts
                        = Append(call[p].attempts, Len(call[p].answers))
                  /\ Recorded(call'[p]) = "downloaded"
                        => LastAnswer(p) \in {200, 226}
                  /\ LastAnswer(p) \in RETRYABLE_STATUS_CODES
                        => /\ Len(call[p].answers) = MAX_RETRIES
                           /\ Recorded(call'[p]) = "failed"]_vars

(* the first source failed after three retryable answers and the second   *)
(* is about to be recorded after two retryable answers and a success       *)
C24_Witness ==
    \E p \in Procs :
        /\ pc[p] = "d_source"
        /\ Downloading(p)
        /\ call[p].attempts = <<3, 3>>
        /\ call[p].progress = <<<<P10, "failed">>, <<P20, "downloaded">>>>

(* C25: an exception raised while download_pdfs deals with one source is  *)
(* recorded as one failure of that source and does not end the call:      *)
(* download_pdfs never raises, and when it returns every source has been  *)
(* counted once.                                                           *)
C25_FailureIsolated ==
    /\ [](\A p \in Procs :
            last[p].op = "download" => last[p].status # "raised")
    /\ [][\A p \in Procs :
            ( /\ pc[p] = "d_return"
              /\ pc'[p] = "idle" )
            => /\ Len(call[p].progress) = Len(call[p].sources)
               /\ call[p].result.downloaded + call[p].result.skipped
                     + call[p].result.failed = Len(call[p].sources)]_vars

(* the members _extract_pdf_from_tgz chooses among *)
Candidates(content) ==
    IF content.kind # "tgz" THEN {}
    ELSE {m \in Range(content.members) :
             /\ m.isfile
             /\ EndsWith(LowerText(m.name), DotPdf)
             /\ 0 < m.size
             /\ m.size <= MAX_PDF_MEMBER_SIZE}

(* the candidates whose name contains the hint *)
Hinted(content, hint) ==
    {m \in Candidates(content) :
        hint # <<>> /\ Contains(LowerText(m.name), LowerText(hint))}

Largest(members) ==
    CHOOSE m \in members : \A n \in members : n.size <= m.size

(* C26: _extract_pdf_from_tgz chooses among the regular-file members      *)
(* named *.pdf whose size is above 0 and at most the bound; it returns    *)
(* the content of the largest one whose name contains the hint if there   *)
(* is one, otherwise of the largest one; it returns None, and does not    *)
(* raise, when there is no such member, when the chosen content is empty  *)
(* and when the archive cannot be parsed.                                  *)
C26_TgzSelection ==
    \A p \in Procs :
        ( /\ pc[p] = "d_respond"
          /\ CurrentSource(p).pmc_format = "tgz"
          /\ LastAnswer(p) \in {200, 226}
          /\ call[p].content # EmptyContent )
        => LET content == call[p].content
               hint == CurrentSource(p).pmcid
               pool == IF Hinted(content, hint) # {}
                       THEN Hinted(content, hint)
                       ELSE Candidates(content)
               pdf == _extract_pdf_from_tgz(content, hint)
           IN /\ pdf # EofError
              /\ IF pool = {} \/ Largest(pool).data = 0
                 THEN pdf = NoPdf
                 ELSE /\ pdf = Largest(pool)
                      /\ pdf.size <= MAX_PDF_MEMBER_SIZE

(* C28: `pm download` exits with 1 on a usage error; when it has called   *)
(* download_pdfs, it exits with 0 only if no PDF failed, with 1 if some   *)
(* PDFs failed and others did not, and with 2 if no PDF was downloaded or *)
(* skipped.                                                                *)
C28_ExitCodes ==
    [][\A p \in Procs :
          ( /\ Downloading(p)
            /\ pc[p] \in {"d_start", "d_return"}
            /\ pc'[p] = "idle" )
          => LET r == call[p].result
                 code == last'[p].value
             IN /\ call[p].main \in {"bad_option", "no_input"} => code = 1
                /\ call[p].main = "run" =>
                      /\ code = 0 => r.failed = 0
                      /\ (r.failed > 0 /\ r.downloaded + r.skipped > 0)
                            => code = 1
                      /\ (r.downloaded = 0 /\ r.skipped = 0)
                            => code = 2]_vars

(***************************************************************************)
(* pm init (init.py:28-64) and find_pm_dir (cache.py:14-23), in a working  *)
(* directory that `pm init` has not been run in, or whose .pm is a plain   *)
(* file or a directory made by hand (tests/test_cache.py:17-40,            *)
(* tests/test_init.py:58-69).                                              *)
(***************************************************************************)
(* a lookup that goes up to the parent directory when the working         *)
(* directory has no state root                                             *)
FindUpward(d) ==
    IF d.pm = "dir" \/ d.up = "dir" THEN Root ELSE NoRoot

(* cache.py:20-23: (Path.cwd() / ".pm").is_dir() *)
find_pm_dir(d) == IF d.pm = "dir" THEN Root ELSE NoRoot

(* init.py:12, in the order of the loop at init.py:46-47 *)
SubdirOrder == <<"search", "fetch", "cite", "download">>

InitCwd ==
    /\ cwd \in [pm : {"absent", "file", "dir"}, up : {"absent", "dir"},
                gitignore : {FALSE}, cache : {FALSE}]
    /\ dirs = {}
    /\ files = <<>>
    /\ audit = NoAudit
    /\ clock = 0
    /\ pc = [p \in Procs |-> "idle"]
    /\ call = [p \in Procs |-> NoCall]
    /\ cw = [p \in Procs |-> NoFrame]
    /\ al = [p \in Procs |-> NoFrame]
    /\ ret = [p \in Procs |-> "idle"]
    /\ ncalls = [p \in Procs |-> 0]
    /\ last = [p \in Procs |-> NoCall]
    /\ wrote = <<>>
    /\ log = <<>>

(* `pm init` is started *)
PmInitCall(p) ==
    /\ pc[p] = "idle"
    /\ TotalCalls < MaxCalls
    /\ call' = [call EXCEPT ![p] =
                   [op |-> "init", pm_dir |-> Root, k |-> 1, ts |-> 0]]
    /\ ncalls' = [ncalls EXCEPT ![p] = @ + 1]
    /\ pc' = [pc EXCEPT ![p] = "i_mkdir"]
    /\ UNCHANGED <<cwd, dirs, files, audit, clock, cw, al, ret, last, wrote,
                   log>>

(* init.py:37-41: os.mkdir(pm_path) *)
PmInitMkdir(p) ==
    /\ pc[p] = "i_mkdir"
    /\ IF cwd.pm # "absent"
       THEN /\ Finish(p, 1)
            /\ UNCHANGED cwd
       ELSE /\ cwd' = [cwd EXCEPT !.pm = "dir"]
            /\ pc' = [pc EXCEPT ![p] = "i_cache"]
            /\ UNCHANGED <<last, call>>
    /\ UNCHANGED <<dirs, files, audit, clock, cw, al, ret, ncalls, wrote,
                   log>>

(* init.py:44-45: cache_dir.mkdir(), without exist_ok *)
PmInitCache(p) ==
    /\ pc[p] = "i_cache"
    /\ IF cwd.cache
       THEN /\ Raise(p, "FileExistsError")
            /\ UNCHANGED cwd
       ELSE /\ cwd' = [cwd EXCEPT !.cache = TRUE]
            /\ pc' = [pc EXCEPT ![p] = "i_subdir"]
            /\ UNCHANGED <<last, call>>
    /\ UNCHANGED <<dirs, files, audit, clock, cw, al, ret, ncalls, wrote,
                   log>>

(* init.py:46-47: one turn of the loop *)
PmInitSubdir(p) ==
    /\ pc[p] = "i_subdir"
    /\ LET subdir == SubdirOrder[call[p].k] IN
       IF subdir \in dirs
       THEN /\ Raise(p, "FileExistsError")
            /\ UNCHANGED dirs
       ELSE /\ dirs' = dirs \cup {subdir}
            /\ call' = [call EXCEPT ![p].k = @ + 1]
            /\ pc' = [pc EXCEPT ![p] =
                         IF call[p].k = Len(SubdirOrder)
                         THEN "i_gitignore" ELSE "i_subdir"]
            /\ UNCHANGED last
    /\ UNCHANGED <<cwd, files, audit, clock, cw, al, ret, ncalls, wrote,
                   log>>

(* init.py:50-56: .gitignore is written, the clock is read for the event *)
PmInitGitignore(p) ==
    /\ pc[p] = "i_gitignore"
    /\ cwd' = [cwd EXCEPT !.gitignore = TRUE]
    /\ \E now \in ClockReadings :
          /\ clock' = now
          /\ call' = [call EXCEPT ![p].ts = now]
    /\ pc' = [pc EXCEPT ![p] = "i_open"]
    /\ UNCHANGED <<dirs, files, audit, cw, al, ret, ncalls, last, wrote,
                   log>>

(* a descriptor opened without O_APPEND writes at its offset, 0 after the  *)
(* open: the bytes replace those the file holds there                      *)
WriteFromStart(content, data) ==
    data \o SubSeq(content, Len(data) + 1, Len(content))

(* init.py:58: write_text opens audit.jsonl with mode "w" *)
PmInitOpen(p) ==
    /\ pc[p] = "i_open"
    /\ audit' = <<>>
    /\ pc' = [pc EXCEPT ![p] = "i_write"]
    /\ UNCHANGED <<cwd, dirs, files, clock, call, cw, al, ret, ncalls, last,
                   wrote, log>>

(* init.py:58: write_text writes the line at the start of the file *)
PmInitWrite(p) ==
    /\ pc[p] = "i_write"
    /\ audit' = WriteFromStart(audit,
                    Line(JsonDumps([ts |-> call[p].ts, op |-> "init"])))
    /\ pc' = [pc EXCEPT ![p] = "i_return"]
    /\ UNCHANGED <<cwd, dirs, files, clock, call, cw, al, ret, ncalls, last,
                   wrote, log>>

(* init.py:64 *)
PmInitReturn(p) ==
    /\ pc[p] = "i_return"
    /\ Finish(p, 0)
    /\ UNCHANGED <<cwd, dirs, files, audit, clock, cw, al, ret, ncalls,
                   wrote, log>>

PmInitStep(p) ==
    \/ PmInitMkdir(p)
    \/ PmInitCache(p)
    \/ PmInitSubdir(p)
    \/ PmInitGitignore(p)
    \/ PmInitOpen(p)
    \/ PmInitWrite(p)
    \/ PmInitReturn(p)

(* a call of find_pm_dir *)
FindPmDir(p) ==
    /\ pc[p] = "idle"
    /\ TotalCalls < MaxCalls
    /\ ncalls' = [ncalls EXCEPT ![p] = @ + 1]
    /\ last' = [last EXCEPT ![p] =
                   [op |-> "find_pm_dir", id |-> <<p, ncalls[p] + 1>>,
                    call |-> [op |-> "find_pm_dir", pm_dir |-> NoRoot],
                    status |-> "returned", value |-> find_pm_dir(cwd)]]
    /\ UNCHANGED <<cwd, dirs, files, audit, clock, pc, call, cw, al, ret,
                   wrote, log>>

(* a command detects the root and logs its event (search.py:205-216,      *)
(* fetch.py:285-291) *)
CliAuditLog(p) ==
    /\ pc[p] = "idle"
    /\ TotalCalls < MaxCalls
    /\ LET pm_dir == find_pm_dir(cwd)
           event == [op |-> "test"]
       IN /\ call' = [call EXCEPT ![p] =
                         [op |-> "audit_log", pm_dir |-> pm_dir,
                          event |-> event]]
          /\ al' = [al EXCEPT ![p] = [pm_dir |-> pm_dir, event |-> event]]
    /\ ncalls' = [ncalls EXCEPT ![p] = @ + 1]
    /\ ret' = [ret EXCEPT ![p] = "idle"]
    /\ pc' = [pc EXCEPT ![p] = "al_enter"]
    /\ UNCHANGED <<cwd, dirs, files, audit, clock, cw, last, wrote, log>>

(* a command detects the root and writes a cache entry *)
CliCacheWrite(p) ==
    /\ pc[p] = "idle"
    /\ TotalCalls < MaxCalls
    /\ LET pm_dir == find_pm_dir(cwd)
           entry == [pm_dir |-> pm_dir, category |-> "search",
                     key |-> TestKey("search"), data |-> <<Ch.ONE, Ch.ONE>>]
       IN /\ call' = [call EXCEPT ![p] = [op |-> "cache_write"] @@ entry]
          /\ cw' = [cw EXCEPT ![p] = entry]
    /\ ncalls' = [ncalls EXCEPT ![p] = @ + 1]
    /\ ret' = [ret EXCEPT ![p] = "idle"]
    /\ pc' = [pc EXCEPT ![p] = "cw_enter"]
    /\ UNCHANGED <<cwd, dirs, files, audit, clock, al, last, wrote, log>>

NextInit ==
    \E p \in Procs :
          \/ PmInitCall(p)
          \/ PmInitStep(p)
          \/ FindPmDir(p)
          \/ CliAuditLog(p)
          \/ CliCacheWrite(p)
          \/ CacheWriteStep(p)
          \/ AuditLogStep(p)

SpecInit == InitCwd /\ [][NextInit]_vars

(* p is running a `pm init` whose mkdir of .pm has succeeded *)
InitUnderWay(p) == call[p].op = "init" /\ pc[p] # "i_mkdir"

(* C29: init run where .pm already exists returns 1 and creates, changes  *)
(* or deletes no file or directory; and a cache directory or the audit    *)
(* file comes into being only in a step of the one init whose mkdir of    *)
(* .pm succeeded.                                                          *)
C29_InitOnce ==
    /\ [][\A p \in Procs :
            (pc[p] = "i_mkdir" /\ pc'[p] # pc[p] /\ cwd.pm # "absent")
            => /\ last'[p].status = "returned"
               /\ last'[p].value = 1
               /\ fsvars' = fsvars]_vars
    /\ [](Cardinality({p \in Procs : InitUnderWay(p)}) <= 1)
    /\ [][( \/ dirs' # dirs
            \/ cwd'.cache # cwd.cache
            \/ (audit = NoAudit /\ audit' # NoAudit) )
          => \E p \in Procs :
                 /\ InitUnderWay(p)
                 /\ pc'[p] # pc[p] \/ call'[p] # call[p]]_vars

(* p has called find_pm_dir in this step *)
FindsPmDir(p) ==
    /\ ncalls'[p] = ncalls[p] + 1
    /\ pc'[p] = "idle"
    /\ last'[p].op = "find_pm_dir"

(* C30: find_pm_dir returns the state root if and only if the working     *)
(* directory has an entry .pm that is a directory; it returns None when   *)
(* .pm is absent or a plain file, whatever the parent directory holds,    *)
(* and changes nothing.                                                    *)
C30_CwdOnly ==
    [][\A p \in Procs :
          FindsPmDir(p) =>
              /\ last'[p].value = Root <=> cwd.pm = "dir"
              /\ last'[p].value = NoRoot <=> cwd.pm \in {"absent", "file"}
              /\ fsvars' = fsvars]_vars

(* find_pm_dir has returned None twice where .pm is a plain file and the  *)
(* parent directory has a state root                                       *)
C30_Witness ==
    \E p, q \in Procs :
        /\ last[p].op = "find_pm_dir"
        /\ last[p].value = NoRoot
        /\ cwd.pm = "file"
        /\ cwd.up = "dir"
        /\ last[q].op = "find_pm_dir"
        /\ q # p

(* p is inside a cache_write that search, fetch or cite called after its  *)
(* request to the network was answered (search.py:110-124,                 *)
(* fetch.py:186-189, cite.py:109-119)                                      *)
CachingFetchedData(p) ==
    /\ call[p].op \in {"search", "fetch", "cite"}
    /\ pc[p] \in CwLabels

(* C27: when a cache write fails after search, fetch or cite has obtained *)
(* its data from the network, the operation does not end with the         *)
(* exception of the cache write: it goes on and returns the data.         *)
C27_BestEffortCache ==
    [][\A p \in Procs :
          (CachingFetchedData(p) /\ pc'[p] = "idle")
          => last'[p].status = "returned"]_vars


(***************************************************************************)
(* pm audit: _read_events and audit_summary (audit.py:11-44) on an         *)
(* audit.jsonl held as bytes.  The lines are those audit_log writes        *)
(* (json.dumps(event, ensure_ascii=False) + "\n", cache.py:118), lines     *)
(* that are not JSON (tests/test_audit.py:64-72), and a line cut inside a  *)
(* two-byte character by a write that stopped short.                       *)
(***************************************************************************)
(* str.splitlines: the line boundaries (after read_text has turned "\r\n"  *)
(* and "\r" into "\n"): \n \r \v \f \x1c \x1d \x1e \x85         *)
LineBoundaries == {10, 11, 12, 13, 28, 29, 30, 133, 8232, 8233}

(* audit.py:18: text.splitlines() *)
RECURSIVE SplitLinesAt(_, _, _)
SplitLinesAt(text, boundaries, acc) ==
    IF text = <<>> THEN (IF acc = <<>> THEN <<>> ELSE <<acc>>)
    ELSE IF Head(text) \in boundaries
    THEN <<acc>> \o SplitLinesAt(Tail(text), boundaries, <<>>)
    ELSE SplitLinesAt(Tail(text), boundaries, Append(acc, Head(text)))

(* a split at "\n" alone, the terminator audit_log writes *)
SplitAtNewline(text) == SplitLinesAt(text, {Ch.LF}, <<>>)

splitlines(text) == SplitLinesAt(text, LineBoundaries, <<>>)

(* the events of the sample files; op names are one letter long *)
AuditEvents ==
    { [op |-> <<Ch.F>>, query |-> <<Ch.A>>],
      [op |-> <<Ch.C>>, query |-> <<Ch.A, Ch.NEL, Ch.C>>],
      [op |-> <<Ch.C>>, query |-> <<Ch.EACUTE>>] }

(* cache.py:118: json.dumps(event, ensure_ascii=False) *)
AuditDumps(event) ==
    JsonObject(<< <<<<Ch.O, Ch.P>>, JsonStr(event.op)>>,
                  <<<<Ch.Q>>, JsonStr(event.query)>> >>)

AuditTexts == [e \in AuditEvents |-> AuditDumps(e)]

(* a JSON value that is not an object *)
NotObject == [value |-> "not an object"]

(* audit.py:23: json.loads(line), for a line that parses *)
AuditLoads(line) ==
    IF \E e \in AuditEvents : AuditTexts[e] = line
    THEN CHOOSE e \in AuditEvents : AuditTexts[e] = line
    ELSE NotObject

(* audit.py:18-25, once the file is decoded *)
LinesToEvents(lines) ==
    LET stripped == [i \in 1..Len(lines) |-> Strip(lines[i])]
        parsed == SelectSeq(stripped, LAMBDA l : l # <<>> /\ JsonValid(l))
    IN [i \in 1..Len(parsed) |-> AuditLoads(parsed[i])]

(* the bytes of a line of audit.jsonl without its terminator *)
TornLine ==
    LET whole == Encode(AuditDumps([op |-> <<Ch.C>>, query |-> <<Ch.EACUTE>>]))
    IN SubSeq(whole, 1, Len(whole) - 3)

AuditLineSamples ==
    {Encode(AuditTexts[e]) : e \in AuditEvents}
        \cup {<<Ch.N, Ch.N>>, <<Ch.ONE>>, TornLine}

MaxLines == 3

AuditFileSamples ==
    {NoFile} \cup
    UNION {{Flatten([i \in 1..n |-> ls[i] \o <<Ch.LF>>]) :
               ls \in [1..n -> AuditLineSamples]} : n \in 0..MaxLines}

InitAudit ==
    /\ cwd = [pm |-> "dir", up |-> "absent", gitignore |-> TRUE,
              cache |-> TRUE]
    /\ dirs = CACHE_SUBDIRS
    /\ files = <<>>
    /\ audit \in AuditFileSamples
    /\ clock = 0
    /\ pc = [p \in Procs |-> "idle"]
    /\ call = [p \in Procs |-> NoCall]
    /\ cw = [p \in Procs |-> NoFrame]
    /\ al = [p \in Procs |-> NoFrame]
    /\ ret = [p \in Procs |-> "idle"]
    /\ ncalls = [p \in Procs |-> 0]
    /\ last = [p \in Procs |-> NoCall]
    /\ wrote = <<>>
    /\ log = <<>>

AuditOps == {"_read_events", "audit_summary"}

AuditCall(p) ==
    /\ pc[p] = "idle"
    /\ TotalCalls < MaxCalls
    /\ \E op \in AuditOps :
          call' = [call EXCEPT ![p] = [op |-> op, pm_dir |-> Root]]
    /\ ncalls' = [ncalls EXCEPT ![p] = @ + 1]
    /\ pc' = [pc EXCEPT ![p] = "ar_read"]
    /\ UNCHANGED <<cwd, dirs, files, audit, clock, cw, al, ret, last, wrote,
                   log>>

(* audit.py:36-44 *)
Summary(events) ==
    [total_events |-> Len(events),
     by_op |-> [o \in {events[i].op : i \in 1..Len(events)} |->
                   Cardinality({i \in 1..Len(events) : events[i].op = o})]]

(* audit.py:13-26, and audit.py:35-44 for audit_summary; event.get on a    *)
(* value that is not a dict raises AttributeError                          *)
AuditRead(p) ==
    /\ pc[p] = "ar_read"
    /\ IF audit = NoFile
       THEN Finish(p, IF call[p].op = "audit_summary"
                      THEN Summary(<<>>) ELSE <<>>)
       ELSE LET text == ReadText(audit) IN
            IF text = DecodeError
            THEN Raise(p, "UnicodeDecodeError")
            ELSE LET events == LinesToEvents(splitlines(text)) IN
                 IF call[p].op = "_read_events"
                 THEN Finish(p, events)
                 ELSE IF \E i \in 1..Len(events) : events[i] = NotObject
                 THEN Raise(p, "AttributeError")
                 ELSE Finish(p, Summary(events))
    /\ UNCHANGED <<cwd, dirs, files, audit, clock, cw, al, ret, ncalls,
                   wrote, log>>

NextAudit ==
    \E p \in Procs :
          \/ AuditCall(p)
          \/ AuditRead(p)

SpecAudit == InitAudit /\ [][NextAudit]_vars

(* the lines of the file as audit_log wrote them: the bytes between two   *)
(* "\n"                                                                    *)
WrittenLines(bytes) ==
    IF bytes = NoFile THEN <<>> ELSE SplitAtNewline(bytes)

(* the line is a JSON text *)
LineIsJson(line) ==
    /\ Utf8Decode(line) # DecodeError
    /\ JsonValid(Strip(Utf8Decode(line)))

(* the events of the lines that parse as JSON, in file order *)
ValidEvents(bytes) ==
    LET good == SelectSeq(WrittenLines(bytes), LineIsJson)
    IN [i \in 1..Len(good) |-> AuditLoads(Strip(Utf8Decode(good[i])))]

(* every line that parses as JSON is an event (an object) *)
OnlyEventsParse(bytes) ==
    \A i \in 1..Len(ValidEvents(bytes)) : ValidEvents(bytes)[i] # NotObject

(* C31: whatever malformed lines audit.jsonl holds among its events,      *)
(* _read_events returns exactly the events of the lines that parse as     *)
(* JSON, in file order, audit_summary counts exactly those, and neither   *)
(* call raises.                                                            *)
C31_SkipsMalformed ==
    [][\A p \in Procs :
          (pc[p] = "ar_read" /\ pc'[p] = "idle" /\ OnlyEventsParse(audit))
          => /\ last'[p].status = "returned"
             /\ last'[p].op = "_read_events"
                    => last'[p].value = ValidEvents(audit)
             /\ last'[p].op = "audit_summary"
                    => last'[p].value = Summary(ValidEvents(audit))]_vars


(* every process is between two calls *)
AllFinished == \A p \in Procs : pc[p] = "idle"

(* the event is one of those _read_events finds in audit.jsonl *)
InAuditFile(event) ==
    \E k \in 1..Len(_read_events(audit)) :
        _read_events(audit)[k] = JsonDumps(event)

(* p has run a `pm init` that returned 0 *)
InitSucceeded(p) ==
    /\ last[p].op = "init"
    /\ last[p].status = "returned"
    /\ last[p].value = 0

(* C32: once `pm init` and the operations running beside it in the same   *)
(* directory have finished, audit.jsonl holds every event audit_log       *)
(* appended, and the init event if init succeeded.                         *)
C32_NoEventLost ==
    AllFinished =>
        /\ \A i \in 1..Len(log) : InAuditFile(log[i].event)
        /\ (\E p \in Procs : InitSucceeded(p))
               => \E ts \in 0..MaxClock + 1 :
                      InAuditFile([ts |-> ts, op |-> "init"])


(* the temporary file of p holds fewer bytes than the payload *)
ShortTemp(p) ==
    /\ CwTmp(p) \in DOMAIN files
    /\ files[CwTmp(p)] # Encode(cw[p].data)

(* C33: cache_write renames its temporary file into place only when the   *)
(* whole payload is in it: when the write stored fewer bytes, the rename  *)
(* step leaves the final entries as they were and the call goes to its    *)
(* failure path.                                                           *)
C33_RenameAfterFullWrite ==
    [][\A p \in Procs :
          (pc[p] = "cw_replace" /\ pc'[p] # pc[p] /\ ShortTemp(p))
          => /\ Finals(files') = Finals(files)
             /\ pc'[p] = "cw_except"]_vars


(***************************************************************************)
(* search and cite on a cache whose entries were put there without         *)
(* cache_write (tests/test_cache.py:75-80): texts that json.loads accepts  *)
(* and that are not what search or cite stored.                            *)
(***************************************************************************)
(* '{}', '[1]', '11' *)
WrongShapes ==
    { <<Ch.LBRACE, Ch.RBRACE>>, <<Ch.LBRACK, Ch.ONE, Ch.RBRACK>>,
      <<Ch.ONE, Ch.ONE>> }

ShapeQuery == <<Ch.A>>

SearchSlot == Path("search", _cache_key(ShapeQuery, DEFAULT_MAX))

CiteSlot == Path("cite", <<P10, ".json">>)

(* what the slot of the query holds: nothing, an envelope, another text *)
SearchSlotContents ==
    {NoFile} \cup
    {Encode(t) : t \in WrongShapes \cup
        {SearchCacheData(ShapeQuery, DEFAULT_MAX, <<P20, P10>>, 0)}}

CiteSlotContents ==
    {NoFile} \cup {Encode(t) : t \in WrongShapes \cup {CiteDumps(P10)}}

SlotFiles(searched, cited) ==
    LET fs == IF searched = NoFile THEN <<>>
              ELSE WriteFile(<<>>, SearchSlot, searched)
    IN IF cited = NoFile THEN fs ELSE WriteFile(fs, CiteSlot, cited)

InitShape ==
    /\ cwd = [pm |-> "dir", up |-> "absent", gitignore |-> TRUE,
              cache |-> TRUE]
    /\ dirs = CACHE_SUBDIRS
    /\ \E searched \in SearchSlotContents, cited \in CiteSlotContents :
          files = SlotFiles(searched, cited)
    /\ audit = Line(JsonDumps(InitEvent))
    /\ clock = 0
    /\ pc = [p \in Procs |-> "idle"]
    /\ call = [p \in Procs |-> NoCall]
    /\ cw = [p \in Procs |-> NoFrame]
    /\ al = [p \in Procs |-> NoFrame]
    /\ ret = [p \in Procs |-> "idle"]
    /\ ncalls = [p \in Procs |-> 0]
    /\ last = [p \in Procs |-> NoCall]
    /\ wrote = <<>>
    /\ log = <<>>

ShapeDirChoices == {[cache_dir |-> Root, pm_dir |-> Root]}

SearchCallShape(p) ==
    SearchCallOf(p, {ShapeQuery}, {DEFAULT_MAX}, ShapeDirChoices, {FALSE})

CiteCallShape(p) ==
    CiteCallWith(p, {<<P10>>, <<P20, P10>>}, ShapeDirChoices)

NextShape ==
    \E p \in Procs :
          \/ SearchCallShape(p)
          \/ SearchStep(p)
          \/ CiteCallShape(p)
          \/ CiteStep(p)
          \/ CacheWriteStep(p)
          \/ AuditLogStep(p)

SpecShape == InitShape /\ [][NextShape]_vars

(* the entry at `path` is a JSON text that is not in `texts` *)
WrongShapeAt(path, texts) ==
    /\ path \in DOMAIN files
    /\ Utf8Decode(files[path]) # DecodeError
    /\ JsonValid(ReadText(files[path]))
    /\ ReadText(files[path]) \notin texts

(* the entry of p's query is JSON and no envelope *)
SearchEntryWrongShape(p) ==
    WrongShapeAt(Path("search",
                      _cache_key(call[p].query, call[p].max_results)),
                 {EnvelopeTexts[e] : e \in Envelopes})

(* the entry of x is JSON and no citation *)
CiteEntryWrongShape(x) ==
    WrongShapeAt(Path("cite", <<x, ".json">>),
                 {CiteDumps(item) : item \in PMIDS})

(* C34: when search or cite looks into the cache and finds an entry that  *)
(* is well-formed JSON without the expected shape, it does not raise: the *)
(* entry counts as a miss, search goes to the network and cite puts the   *)
(* identifier among those it requests.                                     *)
C34_WrongShapeIsMiss ==
    [][\A p \in Procs :
          /\ ( /\ pc[p] = "s_check"
               /\ pc'[p] # pc[p]
               /\ CacheLookup(call[p].cache_dir, call[p].refresh)
               /\ SearchEntryWrongShape(p) )
             => pc'[p] = "s_net"
          /\ ( /\ pc[p] = "c_partition"
               /\ pc'[p] # pc[p]
               /\ CacheLookup(call[p].cache_dir, call[p].refresh) )
             => \A x \in Range(call[p].input) :
                    CiteEntryWrongShape(x)
                    => /\ pc'[p] = "c_batch"
                       /\ x \in Range(call'[p].uncached_pmids)]_vars


(* p makes a step of its call *)
StepOf(p) == pc'[p] # pc[p] \/ call'[p] # call[p]

(* the last call of p was a fetch that ended with the error of a request *)
FetchFailed(p) ==
    /\ last[p].op = "fetch"
    /\ last[p].status = "raised"
    /\ last[p].value = "HTTPError"

(* C35: a fetch of which a batch request fails raises: it never goes on   *)
(* past a failed request; up to the end of its requests it changes        *)
(* nothing in the state root, the error leaves it from the batch loop,    *)
(* and no cache entry and no audit event of the failed call exists, also  *)
(* when earlier batches of the call were answered.                         *)
C35_FailedFetchLeavesRoot ==
    /\ [](\A p \in Procs :
             call[p].op = "fetch"
             => Len(call[p].requests) = Len(call[p].responses))
    /\ [][\A p \in Procs :
             ( /\ call[p].op = "fetch"
               /\ pc[p] \in {"f_partition", "f_batch"}
               /\ StepOf(p) )
             => /\ fsvars' = fsvars
                /\ wrote' = wrote
                /\ log' = log]_vars
    /\ [][\A p \in Procs :
             (pc[p] # "idle" /\ pc'[p] = "idle" /\ FetchFailed(p)')
             => pc[p] = "f_batch"]_vars
    /\ [](\A p \in Procs :
             FetchFailed(p)
             => /\ \A path \in DOMAIN wrote : wrote[path].id # last[p].id
                /\ \A i \in 1..Len(log) : log[i].id # last[p].id)

(* a fetch given the root failed after a batch of it had been answered,   *)
(* while the cache holds the entries of an earlier call                   *)
C35_Witness ==
    \E p \in Procs :
        /\ FetchFailed(p)
        /\ last[p].answered >= 1
        /\ last[p].call.pm_dir = Root
        /\ DOMAIN wrote # {}


(* p runs a cite of which a batch request has failed *)
CiteWithFailedBatch(p) == call[p].op = "cite" /\ call[p].failed >= 1

(* the entry of the citation x holds what cite stored for it *)
CiteCached(x) ==
    /\ Path("cite", <<x, ".json">>) \in DOMAIN files
    /\ files[Path("cite", <<x, ".json">>)] = Encode(CiteDumps(x))

(* C36: a cite of which a batch request failed goes on: it does not       *)
(* raise, at its return every batch has been requested, the citations of  *)
(* the answered batches are in the cache (when it was given one) and in   *)
(* the result, and the call has appended its one audit event (when it     *)
(* was given a root).                                                      *)
C36_FailedBatchSkipped ==
    /\ [][\A p \in Procs :
             (CiteWithFailedBatch(p) /\ pc'[p] = "idle")
             => /\ last'[p].status = "returned"
                /\ Range(call[p].fetched_results) \subseteq
                       Range(last'[p].value)]_vars
    /\ [](\A p \in Procs :
             (CiteWithFailedBatch(p) /\ pc[p] = "c_return")
             => /\ Flatten(call[p].requests) = call[p].uncached_pmids
                /\ call[p].cache_dir # NoRoot
                       => \A x \in Range(call[p].fetched_results) :
                              CiteCached(x)
                /\ call[p].pm_dir # NoRoot
                       => Cardinality({i \in 1..Len(log) :
                                          log[i].id = CallId(p)}) = 1)


(***************************************************************************)
(* fetch and cite with batch sizes below, at and above the number of       *)
(* identifiers (tests/test_fetch.py:117-195, tests/test_cite.py:128-143).  *)
(***************************************************************************)
RequestSizes == {1, 2, BATCH_SIZE}

RequestInputs == {<<>>, <<Blank>>, <<P10, P20, P30>>, <<P20, P10, P20>>}

FetchCallRequests(p) ==
    /\ SessionOf("fetch")
    /\ FetchCallOf(p, RequestInputs, RequestSizes, DirChoices, {FALSE})

CiteCallRequests(p) ==
    /\ SessionOf("cite")
    /\ CiteCallOf(p, RequestInputs, RequestSizes, DirChoices, {FALSE})

NextRequests ==
    \E p \in Procs :
          \/ FetchCallRequests(p)
          \/ FetchStep(p)
          \/ CiteCallRequests(p)
          \/ CiteStep(p)
          \/ CacheWriteStep(p)
          \/ AuditLogStep(p)

SpecRequests == Init /\ [][NextRequests]_vars


(* ceil(n / b) *)
Ceil(n, b) == (n + b - 1) \div b

(* p is in a fetch or a cite *)
Batching(p) == call[p].op \in {"fetch", "cite"}

(* the batch loop of p is over *)
LoopDone(p) ==
    \/ call[p].op = "fetch" /\ pc[p] \in {"f_merge", "f_audit"}
    \/ call[p].op = "cite" /\ pc[p] = "c_audit"

(* p has been given no identifier *)
EmptyInput(p) ==
    \/ /\ call[p].op = "fetch"
       /\ pc[p] = "f_partition"
       /\ \A k \in 1..Len(call[p].input) : Strip(call[p].input[k]) = <<>>
    \/ /\ call[p].op = "cite"
       /\ pc[p] = "c_partition"
       /\ call[p].input = <<>>

(* C37: the requests of a fetch or cite carry between 1 and batch_size    *)
(* identifiers each and, one after the other, are the identifiers that    *)
(* need fetching in their order; a sleep comes before every request but   *)
(* the first and at no other time; when the loop is over there have been  *)
(* exactly ceil(n / batch_size) requests for the n identifiers; and a     *)
(* call with no identifier returns an empty result without a request.     *)
C37_RequestCount ==
    /\ [](\A p \in Procs :
             Batching(p) =>
                /\ \A k \in 1..Len(call[p].requests) :
                      /\ Len(call[p].requests[k]) >= 1
                      /\ Len(call[p].requests[k]) <= call[p].batch_size
                /\ IsPrefixOf(Flatten(call[p].requests),
                              call[p].uncached_pmids)
                /\ call[p].sleeps =
                       IF call[p].requests = <<>> THEN 0
                       ELSE Len(call[p].requests) - 1)
    /\ [](\A p \in Procs :
             LoopDone(p) =>
                /\ Len(call[p].requests) =
                       Ceil(Len(call[p].uncached_pmids), call[p].batch_size)
                /\ Flatten(call[p].requests) = call[p].uncached_pmids)
    /\ [][\A p \in Procs :
             (EmptyInput(p) /\ StepOf(p))
             => /\ call[p].requests = <<>>
                /\ pc'[p] = "idle"
                /\ last'[p].status = "returned"
                /\ last'[p].value = <<>>]_vars

(* the loop of a call is over after two requests for three identifiers,   *)
(* the second after a sleep and with the one identifier left              *)
C37_Witness ==
    \E p \in Procs :
        /\ LoopDone(p)
        /\ call[p].batch_size = 2
        /\ Len(call[p].uncached_pmids) = 3
        /\ Len(call[p].requests) = 2
        /\ Len(call[p].requests[2]) = 1
        /\ call[p].sleeps = 1

(***************************************************************************)
(* The accounting of download_pdfs, checked under SpecDownload.            *)
(***************************************************************************)
(* the step of p returns from download_pdfs *)
DownloadReturns(p) ==
    pc[p] = "d_return" /\ pc'[p] = "idle" /\ Downloading(p)

(* the step of p counts the current source *)
CountsSource(p) ==
    /\ Downloading(p)
    /\ pc[p] \in {"d_source", "d_respond"}
    /\ pc'[p] = "d_source"
    /\ call'[p].idx = call[p].idx + 1

(* the events the current call of p has appended *)
EventsOfCall(p) == SelectSeq(log, LAMBDA e : e.id = CallId(p))

(* the output file of the current source exists (download.py:317-319) *)
OutFileExists(p) == CurrentSource(p).pmid \in call[p].output_dir

(* C38: when download_pdfs returns, downloaded + skipped + failed is the  *)
(* number of sources, the progress callbacks are one per source in the    *)
(* order of the sources, and the call has appended one audit event (none  *)
(* without a root) that carries the three counts and the number of        *)
(* sources as total; a source whose output file exists when its turn      *)
(* comes is counted as skipped after no request, unless overwrite is set. *)
C38_DownloadAccounting ==
    [][\A p \in Procs :
         /\ DownloadReturns(p) =>
               LET c == call[p] IN
               /\ c.result.downloaded + c.result.skipped + c.result.failed
                     = Len(c.sources)
               /\ Len(c.progress) = Len(c.sources)
               /\ \A i \in 1..Len(c.sources) :
                     c.progress[i][1] = c.sources[i].pmid
               /\ \A s \in {"downloaded", "skipped", "failed"} :
                     c.result[s] = Count([i \in 1..Len(c.progress) |->
                                             c.progress[i][2]], s)
               /\ Len(EventsOfCall(p)) = IF c.pm_dir = NoRoot THEN 0 ELSE 1
               /\ \A i \in 1..Len(EventsOfCall(p)) :
                     LET event == EventsOfCall(p)[i].event IN
                     /\ event.op = "download"
                     /\ event.total = Len(c.sources)
                     /\ event.downloaded = c.result.downloaded
                     /\ event.skipped = c.result.skipped
                     /\ event.failed = c.result.failed
         /\ (CountsSource(p) /\ OutFileExists(p) /\ ~call[p].overwrite) =>
               /\ Recorded(call'[p]) = "skipped"
               /\ call[p].answers = <<>>]_vars

(***************************************************************************)
(* find_pdf_sources (download.py:190-266).  pmc_lookup and                 *)
(* unpaywall_lookup catch httpx.HTTPError and the parse errors of their    *)
(* answers themselves (download.py:80-84, 116-117, 175-180) and return     *)
(* None; what still leaves them is another exception, such as              *)
(* httpx.InvalidURL for an identifier that gives no valid URL, or          *)
(* AttributeError when the Unpaywall answer is JSON but not an object      *)
(* (download.py:182).                                                      *)
(***************************************************************************)
Doi1 == <<Ch.ONE, Ch.ZERO, Ch.DOT, Ch.ONE>>

Article(pmid, pmcid, doi) == [pmid |-> pmid, pmcid |-> pmcid, doi |-> doi]

(* tests/test_download.py:700-725, and articles without PMCID or DOI *)
FindInputs ==
    {<<>>,
     <<Article(P10, Pmc1, <<>>), Article(P20, Pmc1, Doi1)>>,
     <<Article(P20, <<>>, Doi1), Article(P10, <<>>, <<>>),
       Article(P30, Pmc1, Doi1)>>}

(* the exceptions that leave pmc_lookup and unpaywall_lookup *)
PmcErrors == {"InvalidURL"}

UnpaywallErrors == {"InvalidURL", "AttributeError"}

(* a handler that catches httpx.HTTPError only *)
CatchesHttpError(exc) == exc = "HTTPError"

(* download.py:246: `except Exception` catches every exception a lookup   *)
(* raises                                                                  *)
CatchesException(exc) == TRUE

(* download.py:257-263 *)
NoSource(pmid) == [pmid |-> pmid, source |-> "None", url |-> "None"]

(* download.py:221-229: pmc_result.url is the pdf or the tgz link *)
PmcSource(article, format) ==
    [pmid |-> article.pmid, source |-> "pmc",
     url |-> IF format = "pdf" THEN "pdf_href" ELSE "tgz_href",
     pmcid |-> article.pmcid, pmc_format |-> format]

(* download.py:236-243 *)
UnpaywallSource(article) ==
    [pmid |-> article.pmid, source |-> "unpaywall", url |-> "url_for_pdf",
     doi |-> article.doi]

(* download.py:190-195; email None or "" is the empty text *)
FindSourcesCall(p) ==
    /\ pc[p] = "idle"
    /\ Turn(p)
    /\ TotalCalls < MaxCalls
    /\ \E articles \in FindInputs, email \in {<<>>, <<Ch.A>>},
          pmc_only \in BOOLEAN, unpaywall_only \in BOOLEAN :
          call' = [call EXCEPT ![p] =
                      [op |-> "find_pdf_sources", pm_dir |-> NoRoot,
                       articles |-> articles, email |-> email,
                       pmc_only |-> pmc_only,
                       unpaywall_only |-> unpaywall_only,
                       idx |-> 1, sources |-> <<>>, lookups |-> <<>>]]
    /\ ncalls' = [ncalls EXCEPT ![p] = @ + 1]
    /\ pc' = [pc EXCEPT ![p] = "s_article"]
    /\ UNCHANGED <<cwd, dirs, files, audit, clock, cw, al, ret, last, wrote, log>>

(* download.py:219: `if not unpaywall_only and pmcid` *)
TriesPmc(c, article) == ~c.unpaywall_only /\ article.pmcid # <<>>

(* download.py:233: `if not pmc_only and doi and email` *)
TriesUnpaywall(c, article) ==
    ~c.pmc_only /\ article.doi # <<>> /\ c.email # <<>>

(* the article at idx gets `record`, after the lookup `made` (or none) *)
FindSourcesRecord(p, record, made) ==
    call' = [call EXCEPT ![p].sources = Append(@, record),
                         ![p].idx = @ + 1,
                         ![p].lookups = @ \o made]

(* one lookup of `service` for the article at idx, with its outcome *)
Lookup(c, service, outcome) ==
    <<[idx |-> c.idx, service |-> service, outcome |-> outcome]>>

(* download.py:207-208, 212-219, 233, 249-265: the next article up to its *)
(* first lookup, or the return                                             *)
FindSourcesArticle(p) ==
    /\ pc[p] = "s_article"
    /\ LET c == call[p] IN
       IF c.idx > Len(c.articles)
       THEN Finish(p, c.sources)
       ELSE LET article == c.articles[c.idx] IN
            IF TriesPmc(c, article)
            THEN /\ pc' = [pc EXCEPT ![p] = "s_pmc"]
                 /\ UNCHANGED <<call, last>>
            ELSE IF TriesUnpaywall(c, article)
            THEN /\ pc' = [pc EXCEPT ![p] = "s_unpaywall"]
                 /\ UNCHANGED <<call, last>>
            ELSE /\ FindSourcesRecord(p, NoSource(article.pmid), <<>>)
                 /\ UNCHANGED <<pc, last>>
    /\ UNCHANGED <<cwd, dirs, files, audit, clock, cw, al, ret, ncalls, wrote,
                   log>>

(* an exception of a lookup: caught at download.py:246, and the article   *)
(* gets the record without source (download.py:257-263)                    *)
FindSourcesExcept(p, service, exc) ==
    IF CatchesException(exc)
    THEN /\ FindSourcesRecord(p, NoSource(call[p].articles[call[p].idx].pmid),
                              Lookup(call[p], service, "raised"))
         /\ pc' = [pc EXCEPT ![p] = "s_article"]
         /\ UNCHANGED last
    ELSE Raise(p, exc)

(* download.py:220-231: pmc_lookup answers a link, None, or raises *)
FindSourcesPmc(p) ==
    /\ pc[p] = "s_pmc"
    /\ LET c == call[p]
           article == c.articles[c.idx]
       IN \/ \E format \in {"pdf", "tgz"} :
                /\ FindSourcesRecord(p, PmcSource(article, format),
                                     Lookup(c, "pmc", "found"))
                /\ pc' = [pc EXCEPT ![p] = "s_article"]
                /\ UNCHANGED last
          \/ IF TriesUnpaywall(c, article)
             THEN /\ call' = [call EXCEPT ![p].lookups =
                                 @ \o Lookup(c, "pmc", "nothing")]
                  /\ pc' = [pc EXCEPT ![p] = "s_unpaywall"]
                  /\ UNCHANGED last
             ELSE /\ FindSourcesRecord(p, NoSource(article.pmid),
                                       Lookup(c, "pmc", "nothing"))
                  /\ pc' = [pc EXCEPT ![p] = "s_article"]
                  /\ UNCHANGED last
          \/ \E exc \in PmcErrors : FindSourcesExcept(p, "pmc", exc)
    /\ UNCHANGED <<cwd, dirs, files, audit, clock, cw, al, ret, ncalls, wrote,
                   log>>

(* download.py:234-245: unpaywall_lookup answers a URL, None or "", or    *)
(* raises                                                                  *)
FindSourcesUnpaywall(p) ==
    /\ pc[p] = "s_unpaywall"
    /\ LET c == call[p]
           article == c.articles[c.idx]
       IN \/ /\ FindSourcesRecord(p, UnpaywallSource(article),
                                  Lookup(c, "unpaywall", "found"))
             /\ pc' = [pc EXCEPT ![p] = "s_article"]
             /\ UNCHANGED last
          \/ /\ FindSourcesRecord(p, NoSource(article.pmid),
                                  Lookup(c, "unpaywall", "nothing"))
             /\ pc' = [pc EXCEPT ![p] = "s_article"]
             /\ UNCHANGED last
          \/ \E exc \in UnpaywallErrors :
                FindSourcesExcept(p, "unpaywall", exc)
    /\ UNCHANGED <<cwd, dirs, files, audit, clock, cw, al, ret, ncalls, wrote,
                   log>>

NextSources ==
    \E p \in Procs :
          \/ FindSourcesCall(p)
          \/ FindSourcesArticle(p)
          \/ FindSourcesPmc(p)
          \/ FindSourcesUnpaywall(p)

SpecSources == Init /\ [][NextSources]_vars


(* p is inside find_pdf_sources *)
FindingSources(p) == call[p].op = "find_pdf_sources"

(* the outcomes of the lookups made for article i *)
OutcomesOf(c, i) ==
    {c.lookups[k].outcome :
        k \in {k \in 1..Len(c.lookups) : c.lookups[k].idx = i}}

(* the number of lookups of `service` made for article i *)
LookupsMade(c, i, service) ==
    Cardinality({k \in 1..Len(c.lookups) :
                    /\ c.lookups[k].idx = i
                    /\ c.lookups[k].service = service})

(* C39: find_pdf_sources does not raise when a lookup raises, and at its  *)
(* return the result holds one record per article, with the article's     *)
(* PMID and in the order of the articles; an article of which a lookup    *)
(* raised, or of which no lookup found a link, has the record with source *)
(* and url None, every other one the record of the link found; and every  *)
(* article with a PMCID has had its PMC lookup (unless unpaywall_only),   *)
(* whatever happened to the articles before it.                            *)
C39_OneRecordPerArticle ==
    /\ [](\A p \in Procs :
            last[p].op = "find_pdf_sources" => last[p].status = "returned")
    /\ [][\A p \in Procs :
            (FindingSources(p) /\ pc[p] = "s_article" /\ pc'[p] = "idle") =>
               LET c == call[p] IN
               /\ last'[p].value = c.sources
               /\ Len(c.sources) = Len(c.articles)
               /\ \A i \in 1..Len(c.articles) :
                     LET article == c.articles[i] IN
                     /\ c.sources[i].pmid = article.pmid
                     /\ ("raised" \in OutcomesOf(c, i)
                           \/ "found" \notin OutcomesOf(c, i))
                        => c.sources[i] = NoSource(article.pmid)
                     /\ "found" \in OutcomesOf(c, i)
                        => /\ c.sources[i].source \in {"pmc", "unpaywall"}
                           /\ c.sources[i].url # "None"
                     /\ LookupsMade(c, i, "pmc")
                           = IF TriesPmc(c, article) THEN 1 ELSE 0
                     /\ LookupsMade(c, i, "unpaywall") <= 1
                     /\ ( /\ TriesUnpaywall(c, article)
                          /\ TriesPmc(c, article)
                             => "nothing" \in OutcomesOf(c, i) )
                        => LookupsMade(c, i, "unpaywall") = 1]_vars

(* a call on two articles is about to return: the PMC lookup of the first *)
(* raised and it has the record without source, the PMC lookup of the     *)
(* second was made and found a link                                        *)
C39_Witness ==
    \E p \in Procs :
        /\ FindingSources(p)
        /\ pc[p] = "s_article"
        /\ call[p].idx > Len(call[p].articles)
        /\ Len(call[p].articles) = 2
        /\ call[p].lookups =
              <<[idx |-> 1, service |-> "pmc", outcome |-> "raised"],
                [idx |-> 2, service |-> "pmc", outcome |-> "found"]>>
        /\ call[p].sources[1] = NoSource(P10)
        /\ call[p].sources[2].source = "pmc"

============================================================================
